---------------------------- MODULE Spec2Model ----------------------------
(***************************************************************************)
(* A model of the Lua interpreter of src/lua: the lexer (_lexer.py), the   *)
(* recursive-descent parser (_parser.py), the tree-walking evaluator       *)
(* (evaluator.py) with its native functions and libraries (native.py) and  *)
(* the embedding facade (interpreter.py).                                  *)
(*                                                                         *)
(* Source text is a TLA+ string holding the Lua source itself; the lexer   *)
(* and the parser are operators computed as the code computes them; the    *)
(* evaluator is a small-step machine: every eval_<Node> method is one      *)
(* action, `kont` is the Python call stack of the eval_ methods in         *)
(* progress and `ctrl` is what is handed between caller and callee (a node *)
(* to evaluate, a returned value, or an exception being propagated).       *)
(***************************************************************************)
EXTENDS Integers, Sequences, FiniteSets, TLC

VARIABLES
    environment,        \* Evaluator.environment: the id of the active dict
    environment_stack,  \* Evaluator.environment_stack: ids of saved dicts
    envs,               \* the dict objects: id -> (name -> value)
    logs,               \* Evaluator.logs
    return_value,       \* Evaluator.return_value (the pending return slot)
    tables,             \* the TableEval objects: ref -> [entries, is_array]
    generators,         \* the generator objects ipairs and pairs returned
    code,               \* Evaluator.code (set by set_code)
    ctrl,               \* hand-over between an eval_ method and its callee
    kont,               \* the eval_ methods in progress, innermost last
    phase,              \* "idle" between host calls, "exec" inside exec
    result,             \* what the last exec returned to the host
    execs,              \* number of exec calls made so far
    hist,               \* history of the current/last exec (observation only)
    lex,                \* state of Lexer.tokenize under the lexer specification
    parsing,            \* state of Parser.parse under the parser specification
    random              \* state of Python's random module: one per process

vars == <<environment, environment_stack, envs, logs, return_value, tables,
          generators, code, ctrl, kont, phase, result, execs, hist, lex,
          parsing, random>>

-----------------------------------------------------------------------------
(* Bounds of the model *)

\* Evaluator's MAX_LOOP_ITERATIONS (evaluator.py:27) is 65_536; the model
\* scales it down so that a loop can reach the cap.
MAX_LOOP_ITERATIONS == 3

\* exec calls per behaviour
MaxExecs == 2

\* entries a table may grow to by indexed assignment
MaxEntries == 6

\* length of the sources given to the lexer specification
MaxLexLen == 4

-----------------------------------------------------------------------------
(* Characters *)

Ch(s, i) == IF i >= 0 /\ i < Len(s) THEN SubSeq(s, i + 1, i + 1) ELSE ""

\* Python's s[a:b] on a string, for 0 <= a and 0 <= b
Slice(s, a, b) ==
    LET e == IF b > Len(s) THEN Len(s) ELSE b
    IN  IF e <= a THEN "" ELSE SubSeq(s, a + 1, e)

Digits == {"0", "1", "2", "3", "4", "5", "6", "7", "8", "9"}

Letters ==
    {"a", "b", "c", "d", "e", "f", "g", "h", "i", "j", "k", "l", "m", "n", "o",
     "p", "q", "r", "s", "t", "u", "v", "w", "x", "y", "z",
     "A", "B", "C", "D", "E", "F", "G", "H", "I", "J", "K", "L", "M", "N", "O",
     "P", "Q", "R", "S", "T", "U", "V", "W", "X", "Y", "Z", "_"}

WordChars == Letters \cup Digits

Spaces == {" ", "\t", "\n", "\r", "\f"}

\* str.count('\n')
RECURSIVE CountNewlines(_)
CountNewlines(s) ==
    IF Len(s) = 0 THEN 0
    ELSE (IF Ch(s, 0) = "\n" THEN 1 ELSE 0) + CountNewlines(Slice(s, 1, Len(s)))

\* the end of the longest run of characters of `class` starting at i
RECURSIVE RunEnd(_, _, _)
RunEnd(s, i, class) ==
    IF i < Len(s) /\ Ch(s, i) \in class THEN RunEnd(s, i + 1, class) ELSE i

\* the end of the longest run of characters other than `stop` starting at i
RECURSIVE RunEndNot(_, _, _)
RunEndNot(s, i, stop) ==
    IF i < Len(s) /\ Ch(s, i) # stop THEN RunEndNot(s, i + 1, stop) ELSE i

\* the first index >= i where "]]" starts, or -1
RECURSIVE FindClose(_, _)
FindClose(s, i) ==
    IF i + 1 >= Len(s) THEN -1
    ELSE IF Ch(s, i) = "]" /\ Ch(s, i + 1) = "]" THEN i
    ELSE FindClose(s, i + 1)

\* the regular expression \b at index i
WordBoundary(s, i) == (Ch(s, i - 1) \in WordChars) # (Ch(s, i) \in WordChars)

-----------------------------------------------------------------------------
(* Lexer: _lexer.py *)

Token(type, value, line) == [type |-> type, value |-> value, line |-> line]

\* the ordered tokenization rules; `re` names the shape of the pattern
rules == <<
    [type |-> "COMMENT",    re |-> "comment",    lit |-> "--"],
    [type |-> "WS",         re |-> "spaces",     lit |-> ""],
    [type |-> "LONGSTRING", re |-> "longstring", lit |-> "[["],
    [type |-> "STRING",     re |-> "string",     lit |-> ""],
    [type |-> "NIL",        re |-> "word",       lit |-> "nil"],
    [type |-> "FLOAT",      re |-> "float",      lit |-> ""],
    [type |-> "INTEGER",    re |-> "integer",    lit |-> ""],
    [type |-> "BOOLEAN",    re |-> "boolean",    lit |-> ""],
    [type |-> "FUNCTION",   re |-> "word",       lit |-> "function"],
    [type |-> "END",        re |-> "word",       lit |-> "end"],
    [type |-> "ELSEIF",     re |-> "word",       lit |-> "elseif"],
    [type |-> "IF",         re |-> "word",       lit |-> "if"],
    [type |-> "THEN",       re |-> "word",       lit |-> "then"],
    [type |-> "ELSE",       re |-> "word",       lit |-> "else"],
    [type |-> "WHILE",      re |-> "word",       lit |-> "while"],
    [type |-> "DO",         re |-> "word",       lit |-> "do"],
    [type |-> "LOCAL",      re |-> "word",       lit |-> "local"],
    [type |-> "RETURN",     re |-> "word",       lit |-> "return"],
    [type |-> "FOR",        re |-> "word",       lit |-> "for"],
    [type |-> "IN",         re |-> "word",       lit |-> "in"],
    [type |-> "BREAK",      re |-> "word",       lit |-> "break"],
    [type |-> "AND",        re |-> "word",       lit |-> "and"],
    [type |-> "OR",         re |-> "word",       lit |-> "or"],
    [type |-> "NOT",        re |-> "word",       lit |-> "not"],
    [type |-> "CONCAT",     re |-> "literal",    lit |-> ".."],
    [type |-> "EQUAL",      re |-> "literal",    lit |-> "=="],
    [type |-> "NEQUAL",     re |-> "literal",    lit |-> "~="],
    [type |-> "LE",         re |-> "literal",    lit |-> "<="],
    [type |-> "GE",         re |-> "literal",    lit |-> ">="],
    [type |-> "ASSIGN",     re |-> "literal",    lit |-> "="],
    [type |-> "PLUS",       re |-> "literal",    lit |-> "+"],
    [type |-> "MINUS",      re |-> "literal",    lit |-> "-"],
    [type |-> "POW",        re |-> "literal",    lit |-> "^"],
    [type |-> "MUL",        re |-> "literal",    lit |-> "*"],
    [type |-> "DIV",        re |-> "literal",    lit |-> "/"],
    [type |-> "MOD",        re |-> "literal",    lit |-> "%"],
    [type |-> "LT",         re |-> "literal",    lit |-> "<"],
    [type |-> "GT",         re |-> "literal",    lit |-> ">"],
    [type |-> "HASH",       re |-> "literal",    lit |-> "#"],
    [type |-> "QUESTION",   re |-> "literal",    lit |-> "?"],
    [type |-> "COLON",      re |-> "literal",    lit |-> ":"],
    [type |-> "NEWLINE",    re |-> "literal",    lit |-> "\n"],
    [type |-> "LPAREN",     re |-> "literal",    lit |-> "("],
    [type |-> "RPAREN",     re |-> "literal",    lit |-> ")"],
    [type |-> "LCURLY",     re |-> "literal",    lit |-> "{"],
    [type |-> "RCURLY",     re |-> "literal",    lit |-> "}"],
    [type |-> "LBRACKET",   re |-> "literal",    lit |-> "["],
    [type |-> "RBRACKET",   re |-> "literal",    lit |-> "]"],
    [type |-> "SEMICOLON",  re |-> "literal",    lit |-> ";"],
    [type |-> "COMMA",      re |-> "literal",    lit |-> ","],
    [type |-> "DOT",        re |-> "literal",    lit |-> "."],
    [type |-> "IDENTIFIER", re |-> "identifier", lit |-> ""] >>

\* `lit` matches at index i
LiteralAt(s, i, lit) == Slice(s, i, i + Len(lit)) = lit

\* \b<lit>\b matches at index i
WordAt(s, i, lit) ==
    /\ LiteralAt(s, i, lit)
    /\ WordBoundary(s, i)
    /\ WordBoundary(s, i + Len(lit))

\* pattern.match(code, position): the index where the match of `rule` at
\* `position` ends, or -1 when the rule does not match there
MatchEnd(rule, s, position) ==
    CASE rule.re = "comment" ->
            IF LiteralAt(s, position, "--")
            THEN RunEndNot(s, position + 2, "\n") ELSE -1
      [] rule.re = "spaces" ->
            IF Ch(s, position) \in Spaces
            THEN RunEnd(s, position, Spaces) ELSE -1
      [] rule.re = "longstring" ->
            IF LiteralAt(s, position, "[[") /\ FindClose(s, position + 2) # -1
            THEN FindClose(s, position + 2) + 2 ELSE -1
      [] rule.re = "string" ->
            LET q == Ch(s, position)
                e == RunEndNot(s, position + 1, q)
            IN  IF q \in {"\"", "'"} /\ e < Len(s) THEN e + 1 ELSE -1
      [] rule.re = "word" ->
            IF WordAt(s, position, rule.lit) THEN position + Len(rule.lit) ELSE -1
      [] rule.re = "boolean" ->
            IF WordAt(s, position, "true") THEN position + 4
            ELSE IF WordAt(s, position, "false") THEN position + 5
            ELSE -1
      [] rule.re = "float" ->
            LET d == RunEnd(s, position, Digits)
                e == RunEnd(s, d + 1, Digits)
            IN  IF /\ WordBoundary(s, position)
                   /\ d > position
                   /\ Ch(s, d) = "."
                   /\ e > d + 1
                   /\ WordBoundary(s, e)
                THEN e ELSE -1
      [] rule.re = "integer" ->
            LET d == RunEnd(s, position, Digits)
            IN  IF WordBoundary(s, position) /\ d > position /\ WordBoundary(s, d)
                THEN d ELSE -1
      [] rule.re = "literal" ->
            IF LiteralAt(s, position, rule.lit) THEN position + Len(rule.lit) ELSE -1
      [] rule.re = "identifier" ->
            IF WordBoundary(s, position) /\ Ch(s, position) \in Letters
            THEN RunEnd(s, position, WordChars) ELSE -1

\* the first rule matching at `position` (its index in rules), or 0
RECURSIVE FirstMatch(_, _, _)
FirstMatch(s, position, i) ==
    IF i > Len(rules) THEN 0
    ELSE IF MatchEnd(rules[i], s, position) # -1 THEN i
    ELSE FirstMatch(s, position, i + 1)

LexerStart == [position |-> 0, line |-> 1, tokens |-> <<>>,
               done |-> FALSE, error |-> <<>>]

\* Python's random module when the process starts: seeded by the
\* operating system (seed -1: no seed a script has given)
RandomStart == [seed |-> -1, draws |-> 0]

\* the parser specification's state before Parser is constructed
ParserStart ==
    [input |-> [a |-> "", op1 |-> "", b |-> "", op2 |-> "", c |-> ""],
     stage |-> "start", tokens |-> <<>>, ast |-> [kind |-> "None"]]

\* one iteration of the loop of Lexer.tokenize, and its exit
TokenizeStep(s, st) ==
    IF st.position >= Len(s)
    THEN [st EXCEPT !.tokens = Append(@, Token("EOF", "", st.line)),
                    !.done = TRUE]
    ELSE
    LET i == FirstMatch(s, st.position, 1) IN
    IF i = 0
    THEN [st EXCEPT !.done = TRUE,
                    !.error = <<[cls |-> "SyntaxError", line |-> st.line,
                                 position |-> st.position,
                                 char |-> Ch(s, st.position)]>>]
    ELSE
    LET type_ == rules[i].type
        end   == MatchEnd(rules[i], s, st.position)
        text  == Slice(s, st.position, end)
    IN  IF type_ = "WS" \/ type_ = "COMMENT"
        THEN [st EXCEPT !.line = @ + CountNewlines(text), !.position = end]
        ELSE
        LET value == IF type_ = "LONGSTRING" THEN Slice(text, 2, Len(text) - 2)
                     ELSE IF type_ = "STRING" THEN Slice(text, 1, Len(text) - 1)
                     ELSE text
            line  == IF type_ = "LONGSTRING"
                     THEN st.line + CountNewlines(value) ELSE st.line
        IN  [st EXCEPT !.line = line, !.position = end,
                       !.tokens = Append(@, Token(type_, value, line))]

RECURSIVE TokenizeFrom(_, _)
TokenizeFrom(s, st) == IF st.done THEN st ELSE TokenizeFrom(s, TokenizeStep(s, st))

\* Lexer.tokenize: [tokens, error], error = <<>> when the tokens are returned
tokenize(s) == TokenizeFrom(s, LexerStart)

-----------------------------------------------------------------------------
(* AST nodes: ASTNodes.py.  A node is a record whose `kind` is the class   *)
(* name; None in an optional field is NoneNode.                            *)

NoneNode == [kind |-> "None"]

Root(body, line) == [kind |-> "Root", body |-> body, line |-> line]

Literal(value, type_, line) ==
    [kind |-> "Literal", value |-> value, type |-> type_, line |-> line]

Table(entries, is_array, line) ==
    [kind |-> "Table", entries |-> entries, is_array |-> is_array, line |-> line]

VariableDeclaration(name, value, line) ==
    [kind |-> "VariableDeclaration", name |-> name, value |-> value, line |-> line]

VariableAssignment(name, value, index, line) ==
    [kind |-> "VariableAssignment", name |-> name, value |-> value,
     index |-> index, line |-> line]

VariableReference(name, index, line) ==
    [kind |-> "VariableReference", name |-> name, index |-> index, line |-> line]

UnaryOperation(operator, operand, line) ==
    [kind |-> "UnaryOperation", operator |-> operator, operand |-> operand,
     line |-> line]

BinaryOperation(left, operator, right, line) ==
    [kind |-> "BinaryOperation", left |-> left, operator |-> operator,
     right |-> right, line |-> line]

IfStatement(condition, then_branch, else_branch, elseif_branches, line) ==
    [kind |-> "IfStatement", condition |-> condition, then_branch |-> then_branch,
     else_branch |-> else_branch, elseif_branches |-> elseif_branches,
     line |-> line]

ForStatement(var_names, start, end, step, expr_list, body, line) ==
    [kind |-> "ForStatement", var_names |-> var_names, start |-> start,
     end |-> end, step |-> step, expr_list |-> expr_list, body |-> body,
     line |-> line]

WhileStatement(condition, body, line) ==
    [kind |-> "WhileStatement", condition |-> condition, body |-> body,
     line |-> line]

BreakStatement(line) == [kind |-> "BreakStatement", line |-> line]

FunctionDeclaration(name, params, body, line) ==
    [kind |-> "FunctionDeclaration", name |-> name, params |-> params,
     body |-> body, line |-> line]

FunctionCall(name, arguments, line) ==
    [kind |-> "FunctionCall", name |-> name, arguments |-> arguments,
     line |-> line]

ReturnStatement(value, line) ==
    [kind |-> "ReturnStatement", value |-> value, line |-> line]

Object(name, line) == [kind |-> "Object", name |-> name, line |-> line]

MethodChain(name, parent, line) ==
    [kind |-> "MethodChain", name |-> name, parent |-> parent, line |-> line]

MethodCall(name, parent, arguments, line) ==
    [kind |-> "MethodCall", name |-> name, parent |-> parent,
     arguments |-> arguments, line |-> line]

-----------------------------------------------------------------------------
(* Parser: _parser.py.  self.current is threaded through as `cur`; a parse *)
(* method returns [ok |-> TRUE, node, cur] or, for a raised ParserError,   *)
(* [ok |-> FALSE, err].                                                    *)

precedence ==
    [OR |-> 1, AND |-> 2, EQUAL |-> 3, NEQUAL |-> 3,
     LT |-> 4, GT |-> 4, LE |-> 4, GE |-> 4,
     PLUS |-> 5, MINUS |-> 5, MUL |-> 6, DIV |-> 6, MOD |-> 6,
     CONCAT |-> 7, POW |-> 8]

is_at_end(toks, cur) == cur >= Len(toks) \/ toks[cur + 1].type = "EOF"

check(toks, cur, type) == ~is_at_end(toks, cur) /\ toks[cur + 1].type = type

peek(toks, cur) == toks[cur + 1]

\* tokens[current - 1]; Python's index -1 is the last token
previous(toks, cur) == IF cur = 0 THEN toks[Len(toks)] ELSE toks[cur]

\* the value of self.current after advance()
advance(toks, cur) == IF ~is_at_end(toks, cur) THEN cur + 1 ELSE cur

Parsed(node, cur) == [ok |-> TRUE, node |-> node, cur |-> cur]

\* raise ParserError(...): get_line reads the line of the token peeked at
ParserError(toks, cur, message) ==
    [ok |-> FALSE,
     err |-> [cls |-> "ParserError", message |-> message,
              got |-> peek(toks, cur).type, line |-> peek(toks, cur).line]]

\* the rest of a parse method after a call that may have raised
Then(r, rest(_)) == IF r.ok THEN rest(r) ELSE r

\* match(*types): [ok |-> matched, cur]
RECURSIVE match(_, _, _)
match(toks, cur, types) ==
    IF types = <<>> THEN [ok |-> FALSE, cur |-> cur]
    ELSE IF check(toks, cur, Head(types))
         THEN [ok |-> TRUE, cur |-> advance(toks, cur)]
         ELSE match(toks, cur, Tail(types))

\* consume(token_type, message): node is the token consumed
consume(toks, cur, token_type, message) ==
    IF check(toks, cur, token_type)
    THEN Parsed(previous(toks, advance(toks, cur)), advance(toks, cur))
    ELSE ParserError(toks, cur, message)

\* self.<method>(...): a parse method called by another one; args holds
\* what the method takes besides the tokens and the position
RECURSIVE Parser(_, _, _, _)
RECURSIVE parse_statements(_, _, _)
RECURSIVE parse_precedence_loop(_, _, _, _)
RECURSIVE parse_table(_, _, _, _)
RECURSIVE parse_arguments_loop(_, _, _)
RECURSIVE parse_method_chain(_, _, _)
RECURSIVE parse_elseif_branches(_, _, _)

parse_expression(toks, cur) ==
    Parser("parse_expression_with_precedence", toks, cur, <<0>>)

parse_literal(toks, cur) ==
    LET token == previous(toks, cur)
    IN  Parsed(Literal(token.value, token.type, token.line), cur)

parse_primary(toks, cur) ==
    IF match(toks, cur, <<"LPAREN">>).ok THEN
        Then(Parser("parse_expression", toks, cur + 1, <<>>), LAMBDA e :
        Then(consume(toks, e.cur, "RPAREN", "Expected ')' after expression."),
             LAMBDA c : Parsed(e.node, c.cur)))
    ELSE IF match(toks, cur, <<"NIL", "INTEGER", "FLOAT", "STRING", "BOOLEAN">>).ok
    THEN parse_literal(toks, cur + 1)
    ELSE IF match(toks, cur, <<"LONGSTRING">>).ok THEN
        LET token == previous(toks, cur + 1)
        IN  Parsed(Literal(token.value, "STRING", token.line), cur + 1)
    ELSE IF match(toks, cur, <<"MINUS", "NOT", "HASH">>).ok
    THEN Parser("parse_unary_operation", toks, cur + 1, <<>>)
    ELSE IF match(toks, cur, <<"LCURLY">>).ok
    THEN parse_table(toks, cur + 1, <<>>, TRUE)
    ELSE IF match(toks, cur, <<"IDENTIFIER">>).ok
    THEN Parser("parse_identifier", toks, cur + 1, <<>>)
    ELSE ParserError(toks, cur, "Unsupported primary expression type")

parse_unary_operation(toks, cur) ==
    LET operator == previous(toks, cur).type
    IN  Then(Parser("parse_primary", toks, cur, <<>>), LAMBDA o :
             Parsed(UnaryOperation(operator, o.node, previous(toks, o.cur).line),
                    o.cur))

\* a parse_expression_with_precedence whose loop takes every operator,
\* whatever min_precedence is
parse_expression_without_precedence(toks, cur, min_precedence) ==
    Then(Parser("parse_primary", toks, cur, <<>>), LAMBDA l :
         parse_precedence_loop(toks, l.cur, 0, l.node))

parse_expression_with_precedence(toks, cur, min_precedence) ==
    Then(Parser("parse_primary", toks, cur, <<>>), LAMBDA l :
         parse_precedence_loop(toks, l.cur, min_precedence, l.node))

\* a right operand that takes the operators of the operator's own level
right_precedence_same(operator) == precedence[operator]

\* self.precedence[operator] + 1: the least level the right operand takes
right_precedence(operator) == precedence[operator] + 1

\* the while loop of parse_expression_with_precedence
parse_precedence_loop(toks, cur, min_precedence, left) ==
    LET type == peek(toks, cur).type IN
    IF type \notin DOMAIN precedence \/ precedence[type] < min_precedence
    THEN Parsed(left, cur)
    ELSE
        LET operator == previous(toks, advance(toks, cur)).type IN
        Then(Parser("parse_expression_with_precedence", toks, advance(toks, cur),
                    <<right_precedence(operator)>>),
             LAMBDA r :
             parse_precedence_loop(toks, r.cur, min_precedence,
                 BinaryOperation(left, operator, r.node,
                                 previous(toks, r.cur).line)))

\* the while loop of parse_table, and what follows it
parse_table(toks, cur, entries, is_array) ==
    IF check(toks, cur, "RCURLY") THEN
        Then(consume(toks, cur, "RCURLY", "Expected '}' at the end of table."),
             LAMBDA c : Parsed(Table(entries, is_array, c.node.line), c.cur))
    ELSE IF match(toks, cur, <<"COMMA">>).ok
    THEN parse_table(toks, cur + 1, entries, is_array)
    ELSE IF check(toks, cur, "IDENTIFIER") /\ toks[cur + 2].type = "ASSIGN" THEN
        LET key == previous(toks, advance(toks, cur)) IN
        Then(consume(toks, cur + 1, "ASSIGN", "Expected '=' after key in table."),
             LAMBDA a :
        Then(Parser("parse_expression", toks, a.cur, <<>>), LAMBDA v :
             parse_table(toks, match(toks, v.cur, <<"COMMA">>).cur,
                 Append(entries, <<Literal(key.value, key.type, key.line), v.node>>),
                 FALSE)))
    ELSE
        Then(Parser("parse_expression", toks, cur, <<>>), LAMBDA v :
             parse_table(toks, match(toks, v.cur, <<"COMMA">>).cur,
                 Append(entries,
                        <<Literal(ToString(Len(entries) + 1), "INTEGER",
                                  peek(toks, v.cur).line), v.node>>),
                 is_array))

parse_identifier(toks, cur) ==
    LET name == previous(toks, cur).value IN
    IF match(toks, cur, <<"ASSIGN">>).ok THEN
        Then(Parser("parse_expression", toks, cur + 1, <<>>), LAMBDA v :
             Parsed(VariableAssignment(name, v.node, NoneNode,
                                       previous(toks, v.cur).line), v.cur))
    ELSE IF match(toks, cur, <<"LBRACKET">>).ok THEN
        Then(Parser("parse_expression", toks, cur + 1, <<>>), LAMBDA i :
        Then(consume(toks, i.cur, "RBRACKET", "Expected ']' after index."),
             LAMBDA c :
             IF match(toks, c.cur, <<"ASSIGN">>).ok THEN
                 Then(Parser("parse_expression", toks, c.cur + 1, <<>>), LAMBDA v :
                      Parsed(VariableAssignment(name, v.node, i.node,
                                 previous(toks, v.cur).line), v.cur))
             ELSE Parsed(VariableReference(name, i.node,
                             previous(toks, c.cur).line), c.cur)))
    ELSE IF check(toks, cur, "DOT") THEN
        parse_method_chain(toks, cur, Object(name, previous(toks, cur).line))
    ELSE IF match(toks, cur, <<"LPAREN">>).ok THEN
        Parser("parse_function_call", toks, cur + 1, <<name>>)
    ELSE Parsed(VariableReference(name, NoneNode, previous(toks, cur).line), cur)

parse_function_call(toks, cur, name) ==
    Then(Parser("parse_arguments", toks, cur, <<>>), LAMBDA a :
    Then(consume(toks, a.cur, "RPAREN", "Expected ')' after arguments."),
         LAMBDA c : Parsed(FunctionCall(name, a.node, c.node.line), c.cur)))

\* node is the list of argument nodes
parse_arguments(toks, cur) ==
    IF ~check(toks, cur, "RPAREN")
    THEN parse_arguments_loop(toks, cur, <<>>)
    ELSE Parsed(<<>>, cur)

parse_arguments_loop(toks, cur, args) ==
    Then(Parser("parse_expression", toks, cur, <<>>), LAMBDA e :
         IF ~match(toks, e.cur, <<"COMMA">>).ok
         THEN Parsed(Append(args, e.node), e.cur)
         ELSE parse_arguments_loop(toks, e.cur + 1, Append(args, e.node)))

\* the while loop of parse_method_chain; `parent` starts as the Object
parse_method_chain(toks, cur, parent) ==
    IF ~match(toks, cur, <<"DOT">>).ok THEN Parsed(parent, cur)
    ELSE
        Then(consume(toks, cur + 1, "IDENTIFIER", "Expected identifier after '.'"),
             LAMBDA m :
             IF match(toks, m.cur, <<"LPAREN">>).ok THEN
                 Then(Parser("parse_arguments", toks, m.cur + 1, <<>>), LAMBDA a :
                 Then(consume(toks, a.cur, "RPAREN", "Expected ')' after arguments."),
                      LAMBDA c :
                      parse_method_chain(toks, c.cur,
                          MethodCall(m.node.value, parent, a.node, c.node.line))))
             ELSE parse_method_chain(toks, m.cur,
                      MethodChain(m.node.value, parent, m.node.line)))

parse_local_declaration(toks, cur) ==
    Then(consume(toks, cur, "IDENTIFIER", "Expected identifier after 'local'."),
         LAMBDA n :
         IF match(toks, n.cur, <<"COMMA">>).ok
         THEN ParserError(toks, n.cur + 1, "Multiple assignment detected")
         ELSE
         Then(consume(toks, n.cur, "ASSIGN", "Expected '=' after identifier."),
              LAMBDA a :
         Then(Parser("parse_expression", toks, a.cur, <<>>), LAMBDA v :
              Parsed(VariableDeclaration(n.node.value, v.node,
                                         previous(toks, v.cur).line), v.cur))))

\* the while loop of parse_parameters; node is the list of names
RECURSIVE parse_parameters_loop(_, _, _)
parse_parameters_loop(toks, cur, parameters) ==
    IF ~check(toks, cur, "IDENTIFIER")
    THEN ParserError(toks, cur, "Expected an identifier for parameter name")
    ELSE
        LET name == toks[cur + 1].value IN
        IF check(toks, cur + 1, "RPAREN")
        THEN Parsed(Append(parameters, name), cur + 1)
        ELSE IF match(toks, cur + 1, <<"COMMA">>).ok
        THEN parse_parameters_loop(toks, cur + 2, Append(parameters, name))
        ELSE ParserError(toks, cur + 1, "Expected ',' or ')'")

parse_parameters(toks, cur) ==
    Then(IF ~check(toks, cur, "RPAREN")
         THEN parse_parameters_loop(toks, cur, <<>>)
         ELSE Parsed(<<>>, cur),
         LAMBDA p :
         Then(consume(toks, p.cur, "RPAREN", "Expected token 'RPAREN'."),
              LAMBDA c : Parsed(p.node, c.cur)))

parse_function_declaration(toks, cur) ==
    Then(consume(toks, cur, "IDENTIFIER", "Expected function name after 'function'."),
         LAMBDA n :
    Then(consume(toks, n.cur, "LPAREN", "Expected '(' after function name."),
         LAMBDA l :
    Then(parse_parameters(toks, l.cur), LAMBDA p :
    Then(parse_statements(toks, p.cur, <<>>), LAMBDA b :
    Then(consume(toks, b.cur, "END", "Expected 'END' to close the function."),
         LAMBDA e :
         Parsed(FunctionDeclaration(n.node.value, p.node, b.node, e.node.line),
                e.cur))))))

parse_return_statement(toks, cur) ==
    Then(Parser("parse_expression", toks, cur, <<>>), LAMBDA v :
         Parsed(ReturnStatement(v.node, previous(toks, v.cur).line), v.cur))

\* the while loop over ELSEIF of parse_if_statement; node is the list
parse_elseif_branches(toks, cur, branches) ==
    IF ~match(toks, cur, <<"ELSEIF">>).ok THEN Parsed(branches, cur)
    ELSE
        Then(Parser("parse_expression", toks, cur + 1, <<>>), LAMBDA c :
        Then(consume(toks, c.cur, "THEN",
                     "Expected 'then' after condition in elseif-statement."),
             LAMBDA t :
        Then(parse_statements(toks, t.cur, <<>>), LAMBDA b :
             parse_elseif_branches(toks, b.cur,
                                   Append(branches, <<c.node, b.node>>)))))

parse_if_statement(toks, cur) ==
    Then(Parser("parse_expression", toks, cur, <<>>), LAMBDA c :
    Then(consume(toks, c.cur, "THEN",
                 "Expected 'then' after condition in if-statement."),
         LAMBDA t :
    Then(parse_statements(toks, t.cur, <<>>), LAMBDA th :
    Then(parse_elseif_branches(toks, th.cur, <<>>), LAMBDA ei :
    Then(IF match(toks, ei.cur, <<"ELSE">>).ok
         THEN parse_statements(toks, ei.cur + 1, <<>>)
         ELSE Parsed(<<>>, ei.cur),
         LAMBDA el :
    Then(consume(toks, el.cur, "END", "Expected 'end' after if-statement blocks."),
         LAMBDA e :
         Parsed(IfStatement(c.node, th.node, el.node, ei.node, e.node.line),
                e.cur)))))))

\* the while loop over COMMA of parse_for_variables; node is the list
RECURSIVE parse_for_variables_loop(_, _, _)
parse_for_variables_loop(toks, cur, var_names) ==
    IF ~match(toks, cur, <<"COMMA">>).ok THEN Parsed(var_names, cur)
    ELSE Then(consume(toks, cur + 1, "IDENTIFIER", "Expected identifier after ','."),
              LAMBDA n :
              parse_for_variables_loop(toks, n.cur, Append(var_names, n.node.value)))

parse_for_variables(toks, cur) ==
    Then(consume(toks, cur, "IDENTIFIER", "Expected identifier in for loop."),
         LAMBDA n :
    Then(parse_for_variables_loop(toks, n.cur, <<n.node.value>>), LAMBDA v :
         IF ~check(toks, v.cur, "ASSIGN") /\ ~check(toks, v.cur, "IN")
         THEN ParserError(toks, v.cur, "Expected '=' or 'in' after loop variables")
         ELSE v))

parse_for_statement(toks, cur) ==
    Then(parse_for_variables(toks, cur), LAMBDA v :
    IF match(toks, v.cur, <<"ASSIGN">>).ok THEN
        Then(Parser("parse_expression", toks, v.cur + 1, <<>>), LAMBDA s :
        Then(consume(toks, s.cur, "COMMA",
                     "Expected ',' after start expression in numeric for-loop."),
             LAMBDA c :
        Then(Parser("parse_expression", toks, c.cur, <<>>), LAMBDA e :
        Then(IF match(toks, e.cur, <<"COMMA">>).ok
             THEN Parser("parse_expression", toks, e.cur + 1, <<>>)
             ELSE Parsed(NoneNode, e.cur),
             LAMBDA st :
        Then(consume(toks, st.cur, "DO",
                     "Expected 'do' after expressions in numeric for-loop."),
             LAMBDA d :
        Then(parse_statements(toks, d.cur, <<>>), LAMBDA b :
        Then(consume(toks, b.cur, "END",
                     "Expected 'end' after body of numeric for-loop."),
             LAMBDA en :
             Parsed(ForStatement(v.node, s.node, e.node, st.node, NoneNode,
                                 b.node, en.node.line), en.cur))))))))
    ELSE IF match(toks, v.cur, <<"IN">>).ok THEN
        Then(Parser("parse_expression", toks, v.cur + 1, <<>>), LAMBDA x :
        Then(consume(toks, x.cur, "DO",
                     "Expected 'do' after expressions in generic for-loop."),
             LAMBDA d :
        Then(parse_statements(toks, d.cur, <<>>), LAMBDA b :
        Then(consume(toks, b.cur, "END",
                     "Expected 'end' after body of generic for-loop."),
             LAMBDA en :
             Parsed(ForStatement(v.node, NoneNode, NoneNode, NoneNode, x.node,
                                 b.node, en.node.line), en.cur)))))
    ELSE ParserError(toks, v.cur, "Expected '=' or 'in' after loop variables"))

parse_while_statement(toks, cur) ==
    Then(Parser("parse_expression", toks, cur, <<>>), LAMBDA c :
    Then(consume(toks, c.cur, "DO", "Expected 'do' after condition in while loop."),
         LAMBDA d :
    Then(parse_statements(toks, d.cur, <<>>), LAMBDA b :
    Then(consume(toks, b.cur, "END", "Expected 'end' to close while loop."),
         LAMBDA e :
         Parsed(WhileStatement(c.node, b.node, e.node.line), e.cur)))))

parse_statement(toks, cur) ==
    IF match(toks, cur, <<"LOCAL">>).ok THEN
        IF check(toks, cur + 1, "FUNCTION")
        THEN Parser("parse_function_declaration", toks, advance(toks, cur + 1), <<>>)
        ELSE Parser("parse_local_declaration", toks, cur + 1, <<>>)
    ELSE IF match(toks, cur, <<"FUNCTION">>).ok
    THEN Parser("parse_function_declaration", toks, cur + 1, <<>>)
    ELSE IF match(toks, cur, <<"RETURN">>).ok
    THEN Parser("parse_return_statement", toks, cur + 1, <<>>)
    ELSE IF match(toks, cur, <<"IF">>).ok
    THEN Parser("parse_if_statement", toks, cur + 1, <<>>)
    ELSE IF match(toks, cur, <<"FOR">>).ok
    THEN Parser("parse_for_statement", toks, cur + 1, <<>>)
    ELSE IF match(toks, cur, <<"WHILE">>).ok
    THEN Parser("parse_while_statement", toks, cur + 1, <<>>)
    ELSE IF match(toks, cur, <<"BREAK">>).ok
    THEN Parsed(BreakStatement(previous(toks, cur + 1).line), cur + 1)
    ELSE Parser("parse_expression", toks, cur, <<>>)

\* the while loop of parse_statements; node is the list of statements
parse_statements(toks, cur, statements) ==
    IF /\ ~is_at_end(toks, cur)
       /\ ~check(toks, cur, "END")
       /\ ~check(toks, cur, "ELSE")
       /\ ~check(toks, cur, "ELSEIF")
    THEN Then(Parser("parse_statement", toks, cur, <<>>), LAMBDA s :
              parse_statements(toks, s.cur, Append(statements, s.node)))
    ELSE Parsed(statements, cur)

Parser(method, toks, cur, args) ==
    CASE method = "parse_statement" -> parse_statement(toks, cur)
      [] method = "parse_expression" -> parse_expression(toks, cur)
      [] method = "parse_expression_with_precedence" ->
            parse_expression_with_precedence(toks, cur, args[1])
      [] method = "parse_primary" -> parse_primary(toks, cur)
      [] method = "parse_unary_operation" -> parse_unary_operation(toks, cur)
      [] method = "parse_identifier" -> parse_identifier(toks, cur)
      [] method = "parse_function_call" -> parse_function_call(toks, cur, args[1])
      [] method = "parse_arguments" -> parse_arguments(toks, cur)
      [] method = "parse_local_declaration" -> parse_local_declaration(toks, cur)
      [] method = "parse_function_declaration" ->
            parse_function_declaration(toks, cur)
      [] method = "parse_return_statement" -> parse_return_statement(toks, cur)
      [] method = "parse_if_statement" -> parse_if_statement(toks, cur)
      [] method = "parse_for_statement" -> parse_for_statement(toks, cur)
      [] method = "parse_while_statement" -> parse_while_statement(toks, cur)

\* Parser.parse: [ok |-> TRUE, node |-> Root] or [ok |-> FALSE, err], where
\* err is the SyntaxError raised from the ParserError
parse(toks) ==
    LET r == parse_statements(toks, 0, <<>>)
    IN  IF r.ok
        THEN Parsed(Root(r.node, peek(toks, r.cur).line), r.cur)
        ELSE [ok |-> FALSE, err |-> [r.err EXCEPT !.cls = "SyntaxError"]]

-----------------------------------------------------------------------------
(* Runtime values.  A value is a record tagged by `t`:                     *)
(*   nil, bool, int, str      Python None, bool, int, str                  *)
(*   table                    a TableEval object, by reference             *)
(*   function                 a FunctionDeclaration node bound in the env  *)
(*   native                   a Python callable (native function, method)  *)
(*   library                  a Library object                             *)
(*   tuple                    a Python tuple (what pcall returns)          *)
(*   generator                a generator object (ipairs, pairs)           *)
(*   float                    a Python float, kept opaque                  *)

Nil == [t |-> "nil"]
Bool(b) == [t |-> "bool", b |-> b]
Number(n) == [t |-> "int", n |-> n]
Str(s) == [t |-> "str", s |-> s]
TableRef(ref) == [t |-> "table", ref |-> ref]
Function(node) == [t |-> "function", node |-> node]
Native(name) == [t |-> "native", name |-> name]
LibraryRef(name) == [t |-> "library", name |-> name]
Tuple(items) == [t |-> "tuple", items |-> items]
GeneratorRef(ref) == [t |-> "generator", ref |-> ref]
Float(name) == [t |-> "float", name |-> name]
\* what random.randint(m, n) returns as the draw-th number after
\* random.seed(seed): an integer of m..n the model does not compute
RandomNumber(seed, draw, m, n) ==
    [t |-> "random", seed |-> seed, draw |-> draw, m |-> m, n |-> n]

\* isinstance(v, int): bool is a subclass of int
IsInt(v) == v.t \in {"int", "bool"}
IntOf(v) == IF v.t = "int" THEN v.n ELSE IF v.b THEN 1 ELSE 0

\* Python's truth value of v: what `if v`, `not v`, `v and w` test
PyTruthy(v) ==
    CASE v.t = "nil" -> FALSE
      [] v.t = "bool" -> v.b
      [] v.t = "int" -> v.n # 0
      [] v.t = "str" -> v.s # ""
      [] v.t = "tuple" -> v.items # <<>>
      [] OTHER -> TRUE

\* Lua's truth value of v, for comparison: only nil and false are falsy
LuaTruthy(v) == ~(v.t = "nil" \/ (v.t = "bool" /\ ~v.b))

\* Python's a == b
RECURSIVE PyEq(_, _)
PyEq(a, b) ==
    IF IsInt(a) /\ IsInt(b) THEN IntOf(a) = IntOf(b)
    ELSE IF a.t = "tuple" /\ b.t = "tuple"
    THEN /\ Len(a.items) = Len(b.items)
         /\ \A i \in 1..Len(a.items) : PyEq(a.items[i], b.items[i])
    ELSE a = b

\* type(v).__name__
PyTypeName(v) ==
    CASE v.t = "nil" -> "NoneType"
      [] v.t = "table" -> "TableEval"
      [] v.t = "function" -> "FunctionDeclaration"
      [] v.t = "native" -> "function"
      [] v.t = "library" -> "Library"
      [] OTHER -> v.t

\* int(s) for a string of digits
RECURSIVE ParseInt(_)
ParseInt(s) ==
    IF Len(s) = 0 THEN 0
    ELSE 10 * ParseInt(Slice(s, 0, Len(s) - 1))
         + (CHOOSE d \in 0..9 : ToString(d) = Ch(s, Len(s) - 1))

IsDigits(s) == Len(s) > 0 /\ \A i \in 0..(Len(s) - 1) : Ch(s, i) \in Digits

\* s * n for a string s
RECURSIVE StrRepeat(_, _)
StrRepeat(s, n) == IF n <= 0 THEN "" ELSE s \o StrRepeat(s, n - 1)

\* sep.join(strs)
RECURSIVE Join(_, _)
Join(strs, sep) ==
    IF strs = <<>> THEN ""
    ELSE IF Len(strs) = 1 THEN strs[1]
    ELSE strs[1] \o sep \o Join(Tail(strs), sep)

\* repr(s) for a string s: the quote is chosen as Python chooses it
RECURSIVE EscapeStr(_, _)
EscapeStr(s, quote) ==
    IF Len(s) = 0 THEN ""
    ELSE LET c == Ch(s, 0)
             e == IF c = "\\" THEN "\\\\"
                  ELSE IF c = "\n" THEN "\\n"
                  ELSE IF c = "\t" THEN "\\t"
                  ELSE IF c = "\r" THEN "\\r"
                  ELSE IF c = quote THEN "\\" \o c
                  ELSE c
         IN  e \o EscapeStr(Slice(s, 1, Len(s)), quote)

HasChar(s, c) == \E i \in 0..(Len(s) - 1) : Ch(s, i) = c

ReprStr(s) ==
    LET quote == IF HasChar(s, "'") /\ ~HasChar(s, "\"") THEN "\"" ELSE "'"
    IN  quote \o EscapeStr(s, quote) \o quote

\* the values whose str() and repr() the model computes: the str() of a
\* function, a library, a generator or a float is left out
RECURSIVE StrModelled(_, _)
StrModelled(v, tbls) ==
    CASE v.t \in {"nil", "bool", "int", "str"} -> TRUE
      [] v.t = "tuple" -> \A i \in 1..Len(v.items) : StrModelled(v.items[i], tbls)
      [] v.t = "table" ->
            \A i \in 1..Len(tbls[v.ref].entries) :
                StrModelled(tbls[v.ref].entries[i][2], tbls)
      [] OTHER -> FALSE

RECURSIVE PyRepr(_, _)
\* str(v); TableEval.__repr__ is native.py:53-58
PyStr(v, tbls) == IF v.t = "str" THEN v.s ELSE PyRepr(v, tbls)

PyRepr(v, tbls) ==
    CASE v.t = "nil" -> "None"
      [] v.t = "bool" -> IF v.b THEN "True" ELSE "False"
      [] v.t = "int" -> ToString(v.n)
      [] v.t = "str" -> ReprStr(v.s)
      [] v.t = "tuple" ->
            IF Len(v.items) = 1 THEN "(" \o PyRepr(v.items[1], tbls) \o ",)"
            ELSE "(" \o Join([i \in 1..Len(v.items) |-> PyRepr(v.items[i], tbls)],
                             ", ") \o ")"
      [] v.t = "table" ->
            LET es == tbls[v.ref].entries IN
            IF tbls[v.ref].is_array
            THEN "Table([" \o Join([i \in 1..Len(es) |-> PyRepr(es[i][2], tbls)],
                                   ", ") \o "])"
            ELSE "Table([" \o Join([i \in 1..Len(es) |->
                                       "[" \o PyRepr(es[i][1], tbls) \o ", "
                                           \o PyRepr(es[i][2], tbls) \o "]"],
                                   ", ") \o "])"

-----------------------------------------------------------------------------
(* Exceptions.  A raised exception is its cause chain, outermost wrapper   *)
(* first: a ChainedException holds a line and a node name and its          *)
(* original_exception is the rest of the chain; a Python built-in          *)
(* exception has line -1 and no node name and ends the chain.              *)

BuiltinException(cls, message) ==
    <<[cls |-> cls, message |-> message, line |-> -1, node_name |-> ""]>>

\* cls(message, node.line, node_name, code_line, original_exception)
Chained(cls, message, line, node_name, original_exception) ==
    <<[cls |-> cls, message |-> message, line |-> line, node_name |-> node_name]>>
    \o original_exception

ChainedClasses ==
    {"ChainedException", "FunctionCallingError", "ReturnError", "MaximumLoopError",
     "BreakException", "FunctionNotDeclaredError", "VariableNotDeclaredError",
     "InvalidOperationError", "FunctionArgumentError"}

\* the classes deriving from Exception: all the model raises
ExceptionClasses ==
    ChainedClasses \cup
    {"Exception", "SyntaxError", "TypeError", "KeyError", "ValueError",
     "IndexError", "AttributeError", "ZeroDivisionError", "AssertionError",
     "ImportError", "PermissionError", "UnboundLocalError"}

\* str(e) of the outermost exception, as far as pcall needs it: the
\* message of a built-in exception (ChainedException.__str__ formats more)
ExceptionStr(exc) == exc[1].message

-----------------------------------------------------------------------------
(* Tables: TableEval, native.py:14-58 *)

TableEval(entries, is_array) == [entries |-> entries, is_array |-> is_array]

\* the index of the first entry whose key == key, or 0
FindKey(entries, key) ==
    IF \E i \in 1..Len(entries) : PyEq(entries[i][1], key)
    THEN CHOOSE i \in 1..Len(entries) :
            /\ PyEq(entries[i][1], key)
            /\ \A j \in 1..(i - 1) : ~PyEq(entries[j][1], key)
    ELSE 0

\* isinstance(key, ...) as __getitem__ and __setitem__ test it
KeyKindOK(table, key) == IF table.is_array THEN IsInt(key) ELSE key.t = "str"

KeyTypeError(table, key) ==
    BuiltinException("TypeError",
        IF table.is_array
        THEN "Key must be an integer for array. Got: " \o PyTypeName(key)
        ELSE "Key must be a string for dictionary. Got: " \o PyTypeName(key))

\* TableEval.__getitem__: [ok |-> TRUE, value] or [ok |-> FALSE, exc]
TableEval_getitem(table, key) ==
    IF ~KeyKindOK(table, key) THEN [ok |-> FALSE, exc |-> KeyTypeError(table, key)]
    ELSE IF FindKey(table.entries, key) # 0
    THEN [ok |-> TRUE, value |-> table.entries[FindKey(table.entries, key)][2]]
    ELSE [ok |-> FALSE,
          exc |-> BuiltinException("KeyError",
                      IF table.is_array THEN "Key not found in array."
                      ELSE "Key not found in dictionary.")]

\* TableEval.__setitem__: [ok |-> TRUE, table] or [ok |-> FALSE, exc]
TableEval_setitem(table, key, value) ==
    IF ~KeyKindOK(table, key) THEN [ok |-> FALSE, exc |-> KeyTypeError(table, key)]
    ELSE IF FindKey(table.entries, key) # 0
    THEN [ok |-> TRUE,
          table |-> [table EXCEPT !.entries[FindKey(table.entries, key)] =
                                      <<@[1], value>>]]
    ELSE [ok |-> TRUE,
          table |-> [table EXCEPT !.entries = Append(@, <<key, value>>)]]

-----------------------------------------------------------------------------
(* Python dicts with string keys: the environments *)

EmptyDict == [n \in {} |-> Nil]

\* d.get(k): None when k is not a key (only a str can be one)
DictGet(d, k) == IF k \in DOMAIN d THEN d[k] ELSE Nil

\* d[k] = v
DictSet(d, k, v) == [n \in (DOMAIN d) \cup {k} |-> IF n = k THEN v ELSE d[n]]

-----------------------------------------------------------------------------
(* Native libraries and functions: native.py *)

\* the methods that raise PermissionError whatever they are given
UnauthorizedMethods ==
    {"coroutine.create", "coroutine.resume", "coroutine.running",
     "coroutine.status", "coroutine.wrap", "coroutine.yield",
     "package.loadlib", "package.searchpath",
     "io.close", "io.flush", "io.input", "io.lines", "io.open", "io.output",
     "io.popen", "io.read", "io.tmpfile", "io.type", "io.write",
     "os.execute", "os.exit", "os.remove", "os.rename", "os.setlocale",
     "os.tmpname"}

\* the libraries dict: for each library its attributes and method names
libraries ==
    [coroutine |-> [attributes |-> EmptyDict,
                    methods |-> {"create", "resume", "running", "status",
                                 "wrap", "yield"}],
     package |-> [attributes |-> [n \in {"loaded", "path", "cpath", "preload"} |->
                                     Str("Unauthorized attribute")],
                  methods |-> {"loadlib", "searchpath"}],
     string |-> [attributes |-> EmptyDict,
                 methods |-> {"byte", "char", "find", "format", "gmatch", "gsub",
                              "len", "lower", "match", "rep", "reverse", "sub",
                              "upper"}],
     table |-> [attributes |-> EmptyDict,
                methods |-> {"insert", "remove", "sort", "concat"}],
     math |-> [attributes |-> [n \in {"pi", "huge", "maxinteger", "mininteger",
                                      "e", "sqrt2"} |-> Float("math." \o n)],
               methods |-> {"abs", "acos", "asin", "atan", "atan2", "ceil", "cos",
                            "cosh", "deg", "exp", "floor", "fmod", "frexp",
                            "ldexp", "log", "log10", "max", "min", "modf", "pow",
                            "rad", "random", "randomseed", "sin", "sinh", "sqrt",
                            "tan", "tanh"}],
     io |-> [attributes |-> EmptyDict,
             methods |-> {"close", "flush", "input", "lines", "open", "output",
                          "popen", "read", "tmpfile", "type", "write"}],
     os |-> [attributes |-> EmptyDict,
             methods |-> {"clock", "date", "difftime", "execute", "exit",
                          "getenv", "remove", "rename", "setlocale", "time",
                          "tmpname"}],
     debug |-> [attributes |-> EmptyDict, methods |-> {}],
     utf8 |-> [attributes |-> EmptyDict, methods |-> {}]]

\* the functions dict
functions ==
    {"ipairs", "pairs", "assert", "error", "next", "select", "type", "tonumber",
     "tostring", "rawget", "rawset", "setmetatable", "getmetatable", "pcall",
     "xpcall"}

\* the libraries the host hands to Interpreter(libraries): one library
\* with one attribute and one method taking no argument
host_libraries ==
    [mylib |-> [attributes |-> [n \in {"version"} |-> Number(1)],
                methods |-> {"answer"}]]

\* a Library object by its name
LibraryOf(name) ==
    IF name \in DOMAIN libraries THEN libraries[name] ELSE host_libraries[name]

\* Evaluator.__init__: the environment after _add_native_functions and
\* _add_native_libs
InitialEnvironment ==
    [n \in functions \cup {"print", "require"} \cup DOMAIN libraries |->
        IF n \in DOMAIN libraries THEN LibraryRef(n) ELSE Native(n)]

\* the callables the model computes; a call of any other is not a step
\* of the model.  Each with the positional arguments its signature takes
\* (max = -1: any number)
NativeSignature(name) ==
    CASE name = "print" -> [min |-> 0, max |-> -1]
      [] name = "pcall" -> [min |-> 1, max |-> -1]
      [] name \in {"ipairs", "assert"} -> [min |-> 1, max |-> 2]
      [] name \in {"require", "pairs", "error", "type", "tostring", "os.getenv"}
            -> [min |-> 1, max |-> 1]
      [] name = "mylib.answer" -> [min |-> 0, max |-> 0]
      [] name = "math.random" -> [min |-> 0, max |-> 2]
      [] name = "math.randomseed" -> [min |-> 0, max |-> 2]
      [] name \in UnauthorizedMethods -> [min |-> 0, max |-> -1]
      [] OTHER -> [min |-> -1, max |-> -1]

NativeModelled(name) == NativeSignature(name).min >= 0

\* the outcome of a native call; st is what a native can change: the
\* logs, the active environment, the generators
Returned(value, st) ==
    [modelled |-> TRUE, ok |-> TRUE, value |-> value, exc |-> <<>>, st |-> st]
Raised(exc, st) ==
    [modelled |-> TRUE, ok |-> FALSE, value |-> Nil, exc |-> exc, st |-> st]
NotModelled(st) ==
    [modelled |-> FALSE, ok |-> FALSE, value |-> Nil, exc |-> <<>>, st |-> st]

\* a print that assigns the line to logs instead of appending it
native_print_assign(args, st) ==
    IF \A i \in 1..Len(args) : StrModelled(args[i], st.tables)
    THEN Returned(Nil,
            [st EXCEPT !.logs = Join([i \in 1..Len(args) |->
                                         PyStr(args[i], st.tables)], " ")
                                \o "\n"])
    ELSE NotModelled(st)

\* Evaluator.native_print
native_print(args, st) ==
    IF \A i \in 1..Len(args) : StrModelled(args[i], st.tables)
    THEN Returned(Nil,
            [st EXCEPT !.logs = @ \o Join([i \in 1..Len(args) |->
                                              PyStr(args[i], st.tables)], " ")
                                  \o "\n"])
    ELSE NotModelled(st)

\* Evaluator.native_require
native_require(library_name, st) ==
    IF ~StrModelled(library_name, st.tables) THEN NotModelled(st)
    ELSE IF library_name.t = "str" /\ PyTruthy(DictGet(st.env, library_name.s))
    THEN Raised(BuiltinException("ImportError",
                    "Library '" \o library_name.s
                    \o "' already exists in the environment."), st)
    ELSE IF library_name.t = "str" /\ library_name.s \in DOMAIN host_libraries
    THEN Returned(LibraryRef(library_name.s),
                  [st EXCEPT !.env = DictSet(@, library_name.s,
                                             LibraryRef(library_name.s))])
    ELSE Raised(BuiltinException("ImportError",
                    "No library named '" \o PyStr(library_name, st.tables)
                    \o "' found."), st)

\* random.seed(a), the method randomseed of the math library: the
\* generator of the process starts the sequence of a again
random_seed(args, st) ==
    IF Len(args) = 1 /\ args[1].t = "int"
    THEN Returned(Nil, [st EXCEPT !.random = [seed |-> args[1].n, draws |-> 0]])
    ELSE NotModelled(st)

\* MathLib.random(m, n): random.randint(1, m) or random.randint(m, n)
\* takes the next number of the sequence of the generator of the process
MathLib_random(args, st) ==
    LET m == IF Len(args) = 1 THEN Number(1) ELSE args[1]
        n == args[Len(args)]
    IN
    IF Len(args) = 0 THEN NotModelled(st)
    ELSE IF m.t # "int" \/ n.t # "int" THEN NotModelled(st)
    ELSE IF m.n > n.n THEN NotModelled(st)
    ELSE Returned(RandomNumber(st.random.seed, st.random.draws + 1, m.n, n.n),
                  [st EXCEPT !.random.draws = @ + 1])

\* Functions.native_ipairs: the generator is created, not started
native_ipairs(table, start_index, st) ==
    IF table.t # "table"
    THEN Raised(BuiltinException("TypeError",
                    "ipairs expected a Table, but got " \o PyTypeName(table)), st)
    ELSE IF ~st.tables[table.ref].is_array
    THEN Raised(BuiltinException("ValueError",
                    "ipairs expected an array, but got a dictionary"), st)
    ELSE IF ~IsInt(start_index) THEN NotModelled(st)
    ELSE Returned(GeneratorRef(Len(st.generators) + 1),
                  [st EXCEPT !.generators =
                      Append(@, [fn |-> "ipairs", table |-> table.ref,
                                 index |-> IntOf(start_index), done |-> FALSE])])

\* Functions.native_pairs
native_pairs(table, st) ==
    IF table.t # "table"
    THEN Raised(BuiltinException("TypeError",
                    "pairs expected a Table, but got " \o PyTypeName(table)), st)
    ELSE IF st.tables[table.ref].is_array
    THEN Raised(BuiltinException("ValueError",
                    "pairs expected a dictionary, but got an array"), st)
    ELSE Returned(GeneratorRef(Len(st.generators) + 1),
                  [st EXCEPT !.generators =
                      Append(@, [fn |-> "pairs", table |-> table.ref,
                                 index |-> 1, done |-> FALSE])])

\* Functions.native_assert
native_assert(v, message, st) ==
    IF PyTruthy(v) THEN Returned(v, st)
    ELSE IF ~StrModelled(message, st.tables) THEN NotModelled(st)
    ELSE Raised(BuiltinException("AssertionError", PyStr(message, st.tables)), st)

\* Functions.native_error
native_error(message, st) ==
    IF ~StrModelled(message, st.tables) THEN NotModelled(st)
    ELSE Raised(BuiltinException("Exception", PyStr(message, st.tables)), st)

\* Functions.native_type
native_type(obj, st) ==
    Returned(Str(CASE obj.t = "str" -> "string"
                   [] obj.t = "bool" -> "boolean"
                   [] obj.t \in {"int", "float"} -> "number"
                   [] obj.t = "table" -> "table"
                   [] obj.t = "nil" -> "nil"
                   [] obj.t = "native" -> "function"
                   [] OTHER -> "userdata"), st)

\* Functions.native_tostring
native_tostring(value, st) ==
    IF StrModelled(value, st.tables) THEN Returned(Str(PyStr(value, st.tables)), st)
    ELSE NotModelled(st)

\* Calling a Python callable with args: Python checks the arguments
\* against the signature (its TypeError message is abridged here), then
\* runs the body (the message of io.write is written without its
\* backquotes)
RECURSIVE NativeCall(_, _, _)
\* Functions.native_pcall
native_pcall(func, args, st) ==
    IF func.t # "native"
    THEN Returned(Tuple(<<Bool(FALSE),
                          Str("'" \o PyTypeName(func) \o "' object is not callable")>>),
                  st)
    ELSE LET r == NativeCall(func.name, args, st) IN
         IF ~r.modelled THEN r
         ELSE IF r.ok THEN Returned(Tuple(<<Bool(TRUE), r.value>>), r.st)
         ELSE Returned(Tuple(<<Bool(FALSE), Str(ExceptionStr(r.exc))>>), r.st)

NativeCall(name, args, st) ==
    LET sig == NativeSignature(name) IN
    IF ~NativeModelled(name) THEN NotModelled(st)
    ELSE IF Len(args) < sig.min \/ (sig.max >= 0 /\ Len(args) > sig.max)
    THEN Raised(BuiltinException("TypeError",
                    name \o "() got a wrong number of positional arguments"), st)
    ELSE CASE name = "print" -> native_print(args, st)
           [] name = "require" -> native_require(args[1], st)
           [] name = "ipairs" ->
                native_ipairs(args[1], IF Len(args) = 2 THEN args[2] ELSE Number(1), st)
           [] name = "pairs" -> native_pairs(args[1], st)
           [] name = "assert" ->
                native_assert(args[1], IF Len(args) = 2 THEN args[2] ELSE Nil, st)
           [] name = "error" -> native_error(args[1], st)
           [] name = "type" -> native_type(args[1], st)
           [] name = "tostring" -> native_tostring(args[1], st)
           [] name = "pcall" -> native_pcall(args[1], Tail(args), st)
           [] name = "mylib.answer" -> Returned(Number(42), st)
           [] name = "math.random" -> MathLib_random(args, st)
           [] name = "math.randomseed" -> random_seed(args, st)
           [] name = "io.write" ->
                Raised(BuiltinException("PermissionError",
                    "Unauthorized method, please use print instead."), st)
           [] OTHER ->
                Raised(BuiltinException("PermissionError", "Unauthorized method"), st)

\* next(generator): the item yielded, or StopIteration (stop), or the
\* exception the generator raises; the generator after the step
GeneratorNext(gen, tbls) ==
    LET entries == tbls[gen.table].entries
        finished == [gen EXCEPT !.done = TRUE]
    IN
    IF gen.done THEN [stop |-> TRUE, exc |-> <<>>, item |-> Nil, gen |-> gen]
    ELSE IF gen.fn = "ipairs"
    THEN IF gen.index <= Len(entries) /\ FindKey(entries, Number(gen.index)) # 0
         THEN [stop |-> FALSE, exc |-> <<>>,
               item |-> Tuple(<<Number(gen.index),
                                entries[FindKey(entries, Number(gen.index))][2]>>),
               gen |-> [gen EXCEPT !.index = @ + 1]]
         ELSE [stop |-> TRUE, exc |-> <<>>, item |-> Nil, gen |-> finished]
    ELSE IF gen.index > Len(entries)
         THEN [stop |-> TRUE, exc |-> <<>>, item |-> Nil, gen |-> finished]
         ELSE IF entries[gen.index][1].t # "str"
         THEN [stop |-> TRUE, item |-> Nil, gen |-> finished,
               exc |-> BuiltinException("ValueError",
                          "pairs found a non-identifier key in the dictionary")]
         ELSE [stop |-> FALSE, exc |-> <<>>,
               item |-> Tuple(<<entries[gen.index][1], entries[gen.index][2]>>),
               gen |-> [gen EXCEPT !.index = @ + 1]]

-----------------------------------------------------------------------------
(* The evaluator as a machine.  m is the state an eval_ method works on;   *)
(* a step of a method ends where it calls self.evaluate (ctrl becomes      *)
(* "eval"), returns (ctrl becomes "value") or raises (ctrl becomes         *)
(* "raise"); the frame on top of kont keeps the method's local variables.  *)
(* ctrl "unmodelled" marks a Python operation the model does not compute   *)
(* (floats, string formatting, most library methods): no step is taken.    *)

M ==
    [environment |-> environment, environment_stack |-> environment_stack,
     envs |-> envs, logs |-> logs, return_value |-> return_value,
     tables |-> tables, generators |-> generators, ctrl |-> ctrl, kont |-> kont,
     hist |-> hist, random |-> random]

\* the history of the first raise of an exec: the nodes whose eval_
\* methods are in progress, outermost first and the raising one last, and
\* the exception first raised
FirstRaise(exc) ==
    [raised |-> TRUE,
     path |-> [i \in 1..Len(kont) |->
                  [line |-> kont[i].node.line, kind |-> kont[i].node.kind]]
              \o (IF ctrl.op = "eval"
                  THEN <<[line |-> ctrl.node.line, kind |-> ctrl.node.kind]>>
                  ELSE <<>>),
     original |-> <<exc[Len(exc)]>>]

Apply(m) ==
    /\ m.ctrl.op # "unmodelled"
    /\ environment' = m.environment
    /\ environment_stack' = m.environment_stack
    /\ envs' = m.envs
    /\ logs' = m.logs
    /\ return_value' = m.return_value
    /\ tables' = m.tables
    /\ generators' = m.generators
    /\ ctrl' = m.ctrl
    /\ kont' = m.kont
    /\ hist' = IF m.ctrl.op = "raise" /\ ctrl.op # "raise"
               THEN [m.hist EXCEPT !.failure = FirstRaise(m.ctrl.exc)]
               ELSE m.hist
    /\ random' = m.random
    /\ UNCHANGED <<code, phase, result, execs, lex, parsing>>

Idle == [op |-> "idle"]
Evaluate(m, node) == [m EXCEPT !.ctrl = [op |-> "eval", node |-> node]]
Return(m, value) == [m EXCEPT !.ctrl = [op |-> "value", value |-> value]]
Raise(m, exc) == [m EXCEPT !.ctrl = [op |-> "raise", exc |-> exc]]
Unmodelled(m) == [m EXCEPT !.ctrl = [op |-> "unmodelled"]]

Top(m) == m.kont[Len(m.kont)]
Push(m, frame) == [m EXCEPT !.kont = Append(@, frame)]
Pop(m) == [m EXCEPT !.kont = SubSeq(@, 1, Len(@) - 1)]
SetTop(m, frame) == [m EXCEPT !.kont[Len(m.kont)] = frame]

\* self.environment as a dict, and self.environment[name] = value
Environment(m) == m.envs[m.environment]
SetVariable(m, name, value) ==
    [m EXCEPT !.envs[m.environment] = DictSet(@, name, value)]

\* the classes of an exception and of its causes
Classes(exc) == {exc[i].cls : i \in 1..Len(exc)}

\* the original cause: the last exception of the chain
OriginalCause(exc) == exc[Len(exc)]

\* evaluate() hands the node to its eval_ method: the method named
\* kind is entered, or resumed by what its callee returned or raised
Dispatch(kind) ==
    /\ phase = "exec"
    /\ IF ctrl.op = "eval" THEN ctrl.node.kind = kind
       ELSE /\ ctrl.op \in {"value", "raise"}
            /\ kont # <<>>
            /\ kont[Len(kont)].node.kind = kind

-----------------------------------------------------------------------------
(* Interpreter: interpreter.py *)

\* the history of an exec, kept for observation only
NoHistory ==
    [source |-> "", stage |-> "none", last_value |-> Nil, top_env |-> 0,
     reset |-> FALSE, unbound |-> "", max_runs |-> 0,
     native |-> [name |-> "", args |-> <<>>, ok |-> TRUE, cause |-> "",
                 changed |-> FALSE, bound |-> {}, value |-> Nil],
     item |-> [op |-> "", is_array |-> FALSE, key |-> Nil, ok |-> FALSE,
               cause |-> "", before |-> <<>>, after |-> <<>>],
     length |-> [taken |-> FALSE, is_array |-> FALSE, value |-> Nil,
                 entries |-> <<>>],
     constructed |-> [done |-> FALSE, is_array |-> FALSE, elements |-> 0,
                      entries |-> <<>>],
     failure |-> [raised |-> FALSE, path |-> <<>>, original |-> <<>>],
     loop |-> [done |-> FALSE, start |-> Nil, end |-> Nil, step |-> Nil,
               ran |-> <<>>],
     own |-> [seeded |-> FALSE, seed |-> 0, draws |-> 0, drawn |-> FALSE,
              value |-> Nil],
     attribute |-> [library |-> "", name |-> "", yielded |-> FALSE],
     call |-> [returned |-> FALSE, before |-> EmptyDict, after |-> EmptyDict],
     returned |-> EmptyDict,
     method |-> [looked |-> FALSE, parent |-> Nil, name |-> "", found |-> FALSE,
                 cause |-> ""],
     member |-> [done |-> FALSE, library |-> "", name |-> "", value |-> Nil],
     shared |-> [done |-> FALSE, name |-> "", ref |-> 0, key |-> Nil,
                 value |-> Nil, caller |-> EmptyDict, tables |-> <<>>],
     parse |-> [returned |-> FALSE, current |-> 0, next |-> ""],
     yield |-> [done |-> FALSE, first |-> <<>>, value |-> Nil],
     truth |-> [tested |-> FALSE, where |-> "", value |-> Nil, truthy |-> FALSE],
     pcall |-> [called |-> FALSE, func |-> Nil, nargs |-> 0, value |-> Nil,
                direct |-> [ok |-> FALSE, value |-> Nil]]]

\* the SyntaxError of Lexer.tokenize and the one of Parser.parse
LexerException(e) ==
    <<[cls |-> "SyntaxError",
       message |-> "Unknown character '" \o e.char \o "' at line "
                   \o ToString(e.line) \o ", position " \o ToString(e.position),
       line |-> e.line, node_name |-> ""]>>

ParserException(e) ==
    <<[cls |-> "SyntaxError", message |-> e.message, line |-> e.line,
       node_name |-> ""]>>

\* an exec whose except clause names ChainedException only
ExecCatchesChained(exc) == exc[1].cls \in ChainedClasses

\* `except Exception as error` of exec: the classes it catches
ExecCatches(exc) == exc[1].cls \in ExceptionClasses

\* what exec hands to the host: the pair it returns, or the exception it
\* lets through
ExecOutcome(exc) ==
    IF ExecCatches(exc)
    THEN [propagated |-> FALSE, success |-> FALSE, value |-> Nil, error |-> exc]
    ELSE [propagated |-> TRUE, success |-> FALSE, value |-> Nil, error |-> exc]

ExecResult(value) ==
    [propagated |-> FALSE, success |-> TRUE, value |-> value, error |-> <<>>]

\* a parser that, when the tokens do not parse, gives the tree of the
\* longest run of leading tokens that does
exec_parse_prefix(tokens) ==
    LET Prefix(n) == Append(SubSeq(tokens, 1, n), tokens[Len(tokens)])
        good == {n \in 0..(Len(tokens) - 1) : parse(Prefix(n)).ok}
    IN  parse(Prefix(CHOOSE n \in good : \A k \in good : k <= n))

\* ast = Parser(tokens, code).parse()
exec_parse(tokens) == parse(tokens)

\* Interpreter.exec up to the call of evaluate: tokenize, parse, set_code
exec(source) ==
    /\ phase = "idle"
    /\ execs < MaxExecs
    /\ execs' = execs + 1
    /\ LET h == [NoHistory EXCEPT !.source = source, !.top_env = environment,
                                 !.own = [hist.own EXCEPT !.drawn = FALSE,
                                                          !.value = Nil]]
           parser(parsed, tokens) ==
               IF ~parsed.ok
               THEN /\ result' = ExecOutcome(ParserException(parsed.err))
                    /\ hist' = [h EXCEPT !.stage = "parser"]
                    /\ UNCHANGED <<code, ctrl, phase>>
               ELSE /\ code' = source
                    /\ ctrl' = [op |-> "eval", node |-> parsed.node]
                    /\ phase' = "exec"
                    /\ hist' = [h EXCEPT !.parse =
                                  [returned |-> TRUE, current |-> parsed.cur,
                                   next |-> peek(tokens, parsed.cur).type]]
                    /\ UNCHANGED result
           lexer(lexed) ==
               IF lexed.error # <<>>
               THEN /\ result' = ExecOutcome(LexerException(lexed.error[1]))
                    /\ hist' = [h EXCEPT !.stage = "lexer"]
                    /\ UNCHANGED <<code, ctrl, phase>>
               ELSE parser(exec_parse(lexed.tokens), lexed.tokens)
       IN  lexer(tokenize(source))
    /\ UNCHANGED <<environment, environment_stack, envs, logs, return_value,
                   tables, generators, kont, lex, parsing,
                   random>>

\* Interpreter.exec from the return of evaluate
exec_return ==
    /\ phase = "exec"
    /\ kont = <<>>
    /\ ctrl.op \in {"value", "raise"}
    /\ result' = IF ctrl.op = "value" THEN ExecResult(ctrl.value)
                 ELSE ExecOutcome(ctrl.exc)
    /\ ctrl' = Idle
    /\ phase' = "idle"
    /\ UNCHANGED <<environment, environment_stack, envs, logs, return_value,
                   tables, generators, code, kont, execs, hist, lex, parsing,
                   random>>

\* exec on another Interpreter of the same process.  Its Evaluator has
\* its own environment, logs and stack; what it shares with this one is
\* the libraries dict of native.py, whose math methods work on Python's
\* random module.  The other interpreter runs math.randomseed(seed)
other_exec(name, args) ==
    /\ phase = "idle"
    /\ LET r == NativeCall(name, args,
                    [logs |-> "", env |-> InitialEnvironment, generators |-> <<>>,
                     tables |-> <<>>, random |-> random])
       IN  /\ r.modelled
           /\ random' = r.st.random
    /\ UNCHANGED <<environment, environment_stack, envs, logs, return_value,
                   tables, generators, code, ctrl, kont, phase, result, execs,
                   hist, lex, parsing>>

\* Interpreter.clear_logs
clear_logs ==
    /\ phase = "idle"
    /\ logs' = ""
    /\ UNCHANGED <<environment, environment_stack, envs, return_value, tables,
                   generators, code, ctrl, kont, phase, result, execs, hist, lex,
                   parsing, random>>

\* Interpreter.reset_environment: a new dict takes the place of the
\* active one, which nothing refers to any more
reset_environment ==
    /\ phase = "idle"
    /\ envs' = <<InitialEnvironment>>
    /\ environment' = 1
    /\ environment_stack' = <<>>
    /\ UNCHANGED <<logs, return_value, tables, generators, code, ctrl, kont,
                   phase, result, execs, hist, lex, parsing,
                   random>>

\* Interpreter.reset: clear_logs, then reset_environment
reset ==
    /\ phase = "idle"
    /\ logs' = ""
    /\ envs' = <<InitialEnvironment>>
    /\ environment' = 1
    /\ environment_stack' = <<>>
    /\ hist' = [hist EXCEPT !.reset = TRUE]
    /\ UNCHANGED <<return_value, tables, generators, code, ctrl, kont, phase,
                   result, execs, lex, parsing,
                   random>>

-----------------------------------------------------------------------------
(* Evaluator: evaluator.py.  One action for each eval_ method. *)

InvalidOperationError(message, node, original_exception) ==
    Chained("InvalidOperationError", message, node.line, node.kind,
            original_exception)

\* observation: the code tested the truth of v, and how it took it
TruthTested(m, where, v) ==
    [m EXCEPT !.hist.truth = [tested |-> TRUE, where |-> where, value |-> v,
                              truthy |-> PyTruthy(v)]]

eval_Root ==
    /\ Dispatch("Root")
    /\ Apply(
        IF ctrl.op = "eval"
        THEN IF ctrl.node.body = <<>> THEN Return(M, Nil)
             ELSE Evaluate(Push(M, [node |-> ctrl.node, i |-> 1, result |-> Nil]),
                           ctrl.node.body[1])
        ELSE LET f == Top(M) IN
             IF ctrl.op = "raise"
             THEN Raise([Pop(M) EXCEPT !.hist.stage = "evaluator"],
                        Chained("ChainedException", "Execution stopped",
                                f.node.line, "Root", ctrl.exc))
             ELSE LET m == [M EXCEPT !.hist.last_value = ctrl.value] IN
                  IF f.i < Len(f.node.body)
                  THEN Evaluate(SetTop(m, [f EXCEPT !.i = @ + 1,
                                                    !.result = ctrl.value]),
                                f.node.body[f.i + 1])
                  ELSE Return(Pop(m), ctrl.value))

eval_Literal ==
    /\ Dispatch("Literal")
    /\ Apply(
        LET node == ctrl.node IN
        CASE node.type = "INTEGER" -> Return(M, Number(ParseInt(node.value)))
          [] node.type = "FLOAT" -> Unmodelled(M)
          [] node.type = "BOOLEAN" -> Return(M, Bool(node.value = "true"))
          [] node.type = "STRING" -> Return(M, Str(node.value))
          [] node.type = "NIL" -> Return(M, Nil)
          [] OTHER ->
                Raise(M, InvalidOperationError("Couldn't evaluate literal", node,
                         InvalidOperationError("Unsupported literal type: "
                                               \o node.type, node, <<>>))))

\* the body of the loop of eval_Table from entry f.i on, and its exit
TableEntries(m, f) ==
    LET node == f.node IN
    IF f.i > Len(node.entries)
    THEN Return([Pop(m) EXCEPT
                    !.tables = Append(@, TableEval(f.evaluated_entries,
                                                   node.is_array)),
                    !.hist.constructed = [done |-> TRUE,
                                          is_array |-> node.is_array,
                                          elements |-> Len(node.entries),
                                          entries |-> f.evaluated_entries]],
                TableRef(Len(m.tables) + 1))
    ELSE LET key_node == node.entries[f.i][1]
             value_node == node.entries[f.i][2]
         IN
         IF node.is_array
         THEN IF key_node.type = "INTEGER"
              THEN Evaluate(SetTop(m, [f EXCEPT !.pc = "key"]), key_node)
              ELSE Raise(Pop(m), InvalidOperationError("Couldn't evaluate table", node,
                     Chained("InvalidOperationError",
                             "Array key must be an integer. Got: " \o key_node.type,
                             key_node.line, "Table", <<>>)))
         ELSE IF key_node.type = "IDENTIFIER"
              THEN Evaluate(SetTop(m, [f EXCEPT !.pc = "value",
                                                !.evaluated_key = Str(key_node.value)]),
                            value_node)
              ELSE Raise(Pop(m), InvalidOperationError("Couldn't evaluate table", node,
                     Chained("InvalidOperationError",
                             "Dictionary key must be an identifier. Got: "
                             \o key_node.type,
                             key_node.line, "Table", <<>>)))

eval_Table ==
    /\ Dispatch("Table")
    /\ Apply(
        IF ctrl.op = "eval"
        THEN LET f == [node |-> ctrl.node, pc |-> "key", i |-> 1,
                       evaluated_entries |-> <<>>, evaluated_key |-> Nil]
             IN  TableEntries(Push(M, f), f)
        ELSE LET f == Top(M) IN
             IF ctrl.op = "raise"
             THEN Raise(Pop(M), InvalidOperationError("Couldn't evaluate table",
                                                      f.node, ctrl.exc))
             ELSE IF f.pc = "key"
             THEN Evaluate(SetTop(M, [f EXCEPT !.pc = "value",
                                               !.evaluated_key = ctrl.value]),
                           f.node.entries[f.i][2])
             ELSE TableEntries(M,
                     [f EXCEPT !.evaluated_entries =
                                   Append(@, <<f.evaluated_key, ctrl.value>>),
                               !.i = @ + 1]))

eval_VariableDeclaration ==
    /\ Dispatch("VariableDeclaration")
    /\ Apply(
        IF ctrl.op = "eval"
        THEN Evaluate(Push(M, [node |-> ctrl.node]), ctrl.node.value)
        ELSE LET node == Top(M).node IN
             IF ctrl.op = "raise"
             THEN Raise(Pop(M), InvalidOperationError(
                     "Couldn't declare variable '" \o node.name \o "'", node, ctrl.exc))
             ELSE Return(SetVariable(Pop(M), node.name, ctrl.value), ctrl.value))

\* `name not in self.environment` and the exception raised for it
NotDeclared(m, name) == name \notin DOMAIN Environment(m)

VariableNotDeclaredError(node) ==
    Chained("VariableNotDeclaredError",
            "Variable '" \o node.name \o "' is not declared.",
            node.line, node.kind, <<>>)

\* obj[index] of Python: [ok |-> TRUE, value] or [ok |-> FALSE, exc]
Subscript(obj, index, tbls) ==
    LET seq == IF obj.t = "str" THEN obj.s ELSE obj.items
        i == IF IntOf(index) < 0 THEN IntOf(index) + Len(seq) ELSE IntOf(index)
    IN
    CASE obj.t = "table" -> TableEval_getitem(tbls[obj.ref], index)
      [] obj.t \in {"str", "tuple"} ->
            IF ~IsInt(index)
            THEN [ok |-> FALSE,
                  exc |-> BuiltinException("TypeError",
                              obj.t \o " indices must be integers")]
            ELSE IF i < 0 \/ i >= Len(seq)
            THEN [ok |-> FALSE,
                  exc |-> BuiltinException("IndexError", obj.t \o " index out of range")]
            ELSE [ok |-> TRUE,
                  value |-> IF obj.t = "str" THEN Str(Ch(seq, i)) ELSE seq[i + 1]]
      [] OTHER ->
            [ok |-> FALSE,
             exc |-> BuiltinException("TypeError",
                         "'" \o PyTypeName(obj) \o "' object is not subscriptable")]

\* the history of obj[key] (op "get") and obj[key] = value (op "set") on a
\* table: r is what the operation gave, before and after are the table
\* heaps around it
Indexed(m, op, obj, key, r, before, after) ==
    IF obj.t # "table" THEN m
    ELSE [m EXCEPT !.hist.item =
            [op |-> op, is_array |-> before[obj.ref].is_array, key |-> key,
             ok |-> r.ok,
             cause |-> IF r.ok THEN "" ELSE OriginalCause(r.exc).cls,
             before |-> before[obj.ref].entries,
             after |-> after[obj.ref].entries]]

eval_VariableReference ==
    /\ Dispatch("VariableReference")
    /\ Apply(
        IF ctrl.op = "eval"
        THEN LET node == ctrl.node IN
             IF NotDeclared(M, node.name)
             THEN Raise([M EXCEPT !.hist.unbound = node.name],
                        InvalidOperationError(
                            "Couldn't reference variable '" \o node.name \o "'", node,
                            VariableNotDeclaredError(node)))
             ELSE IF node.index # NoneNode
             THEN Evaluate(Push(M, [node |-> node]), node.index)
             ELSE Return(M, Environment(M)[node.name])
        ELSE LET node == Top(M).node
                 got == Subscript(Environment(M)[node.name], ctrl.value, tables)
             IN
             IF ctrl.op = "raise"
             THEN Raise(Pop(M), InvalidOperationError(
                     "Couldn't reference variable '" \o node.name \o "'", node,
                     ctrl.exc))
             ELSE IF got.ok
             THEN Return(Pop(Indexed(M, "get", Environment(M)[node.name],
                                     ctrl.value, got, tables, tables)),
                         got.value)
             ELSE Raise(Pop(Indexed(M, "get", Environment(M)[node.name],
                                    ctrl.value, got, tables, tables)),
                        InvalidOperationError(
                            "Couldn't reference variable '" \o node.name \o "'",
                            node, got.exc)))

\* obj[index] = value of Python: a table is changed in place, and may
\* grow to MaxEntries entries in the model
SetItem(m, obj, index, value) ==
    LET set == TableEval_setitem(m.tables[obj.ref], index, value) IN
    IF obj.t # "table"
    THEN [ok |-> FALSE, m |-> m,
          exc |-> BuiltinException("TypeError",
                      "'" \o PyTypeName(obj)
                      \o "' object does not support item assignment")]
    ELSE IF ~set.ok THEN [ok |-> FALSE, m |-> m, exc |-> set.exc]
    ELSE IF Len(set.table.entries) > MaxEntries
    THEN [ok |-> TRUE, m |-> Unmodelled(m), exc |-> <<>>]
    ELSE [ok |-> TRUE, m |-> [m EXCEPT !.tables[obj.ref] = set.table], exc |-> <<>>]

\* observation: no indexed assignment to a table of the caller
NotWritten ==
    [done |-> FALSE, name |-> "", ref |-> 0, key |-> Nil, value |-> Nil,
     caller |-> EmptyDict, tables |-> <<>>]

\* observation: name[key] = value has been executed on the table obj.  The
\* innermost user-function call in progress keeps it when its caller had
\* bound name to a table when the call began and the body has name as it
\* got it; a call in progress that kept an assignment to the same table
\* forgets it
TableWritten(m, name, obj, key, value) ==
    LET calls == {i \in 1..Len(m.kont) :
                     m.kont[i].node.kind = "FunctionCall" /\ m.kont[i].pc = "body"}
        innermost == CHOOSE i \in calls : \A j \in calls : j <= i
        kept(f) == [f EXCEPT !.wrote = [NotWritten EXCEPT
                                           !.done = TRUE, !.name = name,
                                           !.ref = f.at_call[name].ref,
                                           !.key = key, !.value = value]]
        forgot(f) == IF f.wrote.done /\ f.wrote.ref = obj.ref
                     THEN [f EXCEPT !.wrote = NotWritten] ELSE f
    IN  IF calls = {} THEN m
        ELSE [m EXCEPT !.kont =
                 [i \in 1..Len(m.kont) |->
                     IF i \notin calls THEN m.kont[i]
                     ELSE IF /\ i = innermost
                             /\ name \in DOMAIN m.kont[i].at_call
                             /\ m.kont[i].at_call[name].t = "table"
                             /\ name \in DOMAIN m.kont[i].started
                             /\ m.kont[i].started[name] = obj
                     THEN kept(m.kont[i])
                     ELSE forgot(m.kont[i])]]

eval_VariableAssignment ==
    /\ Dispatch("VariableAssignment")
    /\ Apply(
        IF ctrl.op = "eval"
        THEN LET node == ctrl.node IN
             IF NotDeclared(M, node.name)
             THEN Raise([M EXCEPT !.hist.unbound = node.name],
                        InvalidOperationError(
                            "Couldn't assign variable '" \o node.name \o "'", node,
                            VariableNotDeclaredError(node)))
             ELSE IF node.index # NoneNode
             THEN Evaluate(Push(M, [node |-> node, pc |-> "index", index |-> Nil]),
                           node.index)
             ELSE Evaluate(Push(M, [node |-> node, pc |-> "value", index |-> Nil]),
                           node.value)
        ELSE LET f == Top(M)
                 node == f.node
                 set == SetItem(Pop(M), Environment(M)[node.name], f.index, ctrl.value)
             IN
             IF ctrl.op = "raise"
             THEN Raise(Pop(M), InvalidOperationError(
                     "Couldn't assign variable '" \o node.name \o "'", node, ctrl.exc))
             ELSE IF f.pc = "index"
             THEN Evaluate(SetTop(M, [f EXCEPT !.pc = "value", !.index = ctrl.value]),
                           node.value)
             ELSE IF node.index = NoneNode
             THEN Return(SetVariable(Pop(M), node.name, ctrl.value), Nil)
             ELSE IF set.ok
             THEN (IF set.m.ctrl.op = "unmodelled" THEN set.m
                   ELSE Return(TableWritten(
                                   Indexed(set.m, "set", Environment(M)[node.name],
                                           f.index, set, tables, set.m.tables),
                                   node.name, Environment(M)[node.name], f.index,
                                   ctrl.value),
                               Nil))
             ELSE Raise(Indexed(Pop(M), "set", Environment(M)[node.name], f.index,
                                set, tables, tables),
                        InvalidOperationError(
                            "Couldn't assign variable '" \o node.name \o "'",
                            node, set.exc)))

\* evaluate(): an exception of an eval_ method that is no
\* ChainedException is wrapped in one
evaluate_wrap(node, exc) ==
    IF exc[1].cls \in ChainedClasses THEN exc
    ELSE Chained("ChainedException", ExceptionStr(exc), node.line, node.kind, exc)

\* the except clause of eval_UnaryOperation and of eval_BinaryOperation
\* formats the local variable `operator`.  When the operand raised, that
\* variable is not assigned yet: the clause itself raises
\* UnboundLocalError, and the exception being handled is no cause of it
OperatorUnbound(node) ==
    evaluate_wrap(node,
        BuiltinException("UnboundLocalError",
            "cannot access local variable 'operator' where it is not associated with a value"))

\* the value of a unary operation: [kind |-> "value", value],
\* [kind |-> "raise", exc] or [kind |-> "unmodelled"]
UnaryValue(node, operand, tbls) ==
    CASE node.operator = "MINUS" ->
            IF IsInt(operand) THEN [kind |-> "value", value |-> Number(-IntOf(operand))]
            ELSE IF operand.t = "float" THEN [kind |-> "unmodelled"]
            ELSE [kind |-> "raise",
                  exc |-> BuiltinException("TypeError",
                              "bad operand type for unary -: '"
                              \o PyTypeName(operand) \o "'")]
      [] node.operator = "NOT" -> [kind |-> "value", value |-> Bool(~PyTruthy(operand))]
      [] node.operator = "HASH" ->
            IF operand.t = "table"
            THEN [kind |-> "value",
                  value |-> Number(Cardinality(
                      {i \in 1..Len(tbls[operand.ref].entries) :
                          tbls[operand.ref].entries[i][1] # Nil}))]
            ELSE IF operand.t = "str"
            THEN [kind |-> "value", value |-> Number(Len(operand.s))]
            ELSE [kind |-> "raise",
                  exc |-> InvalidOperationError(
                              "Cannot get length of " \o PyTypeName(operand),
                              node, <<>>)]
      [] OTHER ->
            [kind |-> "raise",
             exc |-> InvalidOperationError(
                         "Unsupported unary operator: " \o node.operator, node, <<>>)]

eval_UnaryOperation ==
    /\ Dispatch("UnaryOperation")
    /\ Apply(
        IF ctrl.op = "eval"
        THEN Evaluate(Push(M, [node |-> ctrl.node]), ctrl.node.operand)
        ELSE LET node == Top(M).node
                 r == UnaryValue(node, ctrl.value, tables)
             IN
             IF ctrl.op = "raise" THEN Raise(Pop(M), OperatorUnbound(node))
             ELSE IF r.kind = "unmodelled" THEN Unmodelled(M)
             ELSE IF r.kind = "value"
             THEN Return(Pop(IF node.operator = "HASH" /\ ctrl.value.t = "table"
                             THEN [M EXCEPT !.hist.length =
                                     [taken |-> TRUE,
                                      is_array |-> tables[ctrl.value.ref].is_array,
                                      value |-> r.value,
                                      entries |-> tables[ctrl.value.ref].entries]]
                             ELSE IF node.operator = "NOT"
                             THEN TruthTested(M, "not", ctrl.value)
                             ELSE M),
                         r.value)
             ELSE Raise(Pop(M), InvalidOperationError(
                     "Couldn't evaluate unary operation '" \o node.operator \o "'",
                     node, r.exc)))

\* a % b of Python for integers, b # 0: the sign is the divisor's
PyMod(a, b) == IF b > 0 THEN a % b ELSE -((-a) % (-b))

\* a ** b for integers, b >= 0
RECURSIVE PyPow(_, _)
PyPow(a, b) == IF b = 0 THEN 1 ELSE a * PyPow(a, b - 1)

OperandTypeError(symbol, left, right) ==
    [kind |-> "raise",
     exc |-> BuiltinException("TypeError",
                 "unsupported operand type(s) for " \o symbol \o ": '"
                 \o PyTypeName(left) \o "' and '" \o PyTypeName(right) \o "'")]

\* the value of a binary operation, as UnaryValue
BinaryValue(node, left, right, tbls) ==
    LET operator == node.operator
        ints == IsInt(left) /\ IsInt(right)
        a == IntOf(left)
        b == IntOf(right)
        float == left.t = "float" \/ right.t = "float"
        Value(v) == [kind |-> "value", value |-> v]
        unmodelled == [kind |-> "unmodelled"]
        Repeat(seq, n) ==
            IF seq.t = "str" THEN Str(StrRepeat(seq.s, n))
            ELSE Tuple([i \in 1..(Len(seq.items) * (IF n < 0 THEN 0 ELSE n)) |->
                           seq.items[((i - 1) % Len(seq.items)) + 1]])
    IN
    CASE operator = "PLUS" ->
            IF ints THEN Value(Number(a + b))
            ELSE IF left.t = "str" /\ right.t = "str" THEN Value(Str(left.s \o right.s))
            ELSE IF left.t = "tuple" /\ right.t = "tuple"
            THEN Value(Tuple(left.items \o right.items))
            ELSE IF float THEN unmodelled
            ELSE OperandTypeError("+", left, right)
      [] operator = "MINUS" ->
            IF ints THEN Value(Number(a - b))
            ELSE IF float THEN unmodelled
            ELSE OperandTypeError("-", left, right)
      [] operator = "MUL" ->
            IF ints THEN Value(Number(a * b))
            ELSE IF left.t \in {"str", "tuple"} /\ IsInt(right) THEN Value(Repeat(left, b))
            ELSE IF IsInt(left) /\ right.t \in {"str", "tuple"} THEN Value(Repeat(right, a))
            ELSE IF float THEN unmodelled
            ELSE OperandTypeError("*", left, right)
      [] operator = "DIV" ->
            IF ints /\ b = 0
            THEN [kind |-> "raise",
                  exc |-> BuiltinException("ZeroDivisionError", "division by zero")]
            ELSE IF ints \/ float THEN unmodelled
            ELSE OperandTypeError("/", left, right)
      [] operator = "POW" ->
            IF ints /\ b >= 0 THEN Value(Number(PyPow(a, b)))
            ELSE IF ints \/ float THEN unmodelled
            ELSE OperandTypeError("** or pow()", left, right)
      [] operator = "MOD" ->
            IF ints /\ b = 0
            THEN [kind |-> "raise",
                  exc |-> BuiltinException("ZeroDivisionError",
                              "integer modulo by zero")]
            ELSE IF ints THEN Value(Number(PyMod(a, b)))
            ELSE IF float \/ left.t = "str" THEN unmodelled
            ELSE OperandTypeError("%", left, right)
      [] operator \in {"EQUAL", "NEQUAL"} ->
            IF float THEN unmodelled
            ELSE Value(Bool(PyEq(left, right) = (operator = "EQUAL")))
      [] operator \in {"LT", "LE", "GT", "GE"} ->
            IF ints
            THEN Value(Bool(CASE operator = "LT" -> a < b
                              [] operator = "LE" -> a <= b
                              [] operator = "GT" -> a > b
                              [] operator = "GE" -> a >= b))
            ELSE IF float \/ (left.t = right.t /\ left.t \in {"str", "tuple"})
            THEN unmodelled
            ELSE OperandTypeError("comparison", left, right)
      [] operator = "AND" -> Value(IF PyTruthy(left) THEN right ELSE left)
      [] operator = "OR" -> Value(IF PyTruthy(left) THEN left ELSE right)
      [] operator = "CONCAT" ->
            IF StrModelled(left, tbls) /\ StrModelled(right, tbls)
            THEN Value(Str(PyStr(left, tbls) \o PyStr(right, tbls)))
            ELSE unmodelled
      [] OTHER ->
            [kind |-> "raise",
             exc |-> InvalidOperationError(
                         "Unsupported binary operator: " \o operator, node, <<>>)]

eval_BinaryOperation ==
    /\ Dispatch("BinaryOperation")
    /\ Apply(
        IF ctrl.op = "eval"
        THEN Evaluate(Push(M, [node |-> ctrl.node, pc |-> "left", left |-> Nil]),
                      ctrl.node.left)
        ELSE LET f == Top(M)
                 node == f.node
                 r == BinaryValue(node, f.left, ctrl.value, tables)
                 message == "Couldn't evaluate binary operation '"
                            \o node.operator \o "'"
             IN
             IF ctrl.op = "raise" THEN Raise(Pop(M), OperatorUnbound(node))
             ELSE IF f.pc = "left"
             THEN Evaluate(SetTop(M, [f EXCEPT !.pc = "right", !.left = ctrl.value]),
                           node.right)
             ELSE IF r.kind = "unmodelled" THEN Unmodelled(M)
             ELSE IF r.kind = "value"
             THEN Return(Pop(IF node.operator = "AND"
                             THEN TruthTested(M, "and", f.left)
                             ELSE IF node.operator = "OR"
                             THEN TruthTested(M, "or", f.left)
                             ELSE M),
                         r.value)
             ELSE IF r.exc[1].cls = "TypeError"
             THEN Raise(Pop(M), InvalidOperationError(message, node,
                        InvalidOperationError(ExceptionStr(r.exc), node, r.exc)))
             ELSE Raise(Pop(M), InvalidOperationError(message, node, r.exc)))

eval_IfStatement ==
    /\ Dispatch("IfStatement")
    /\ Apply(
        IF ctrl.op = "eval"
        THEN Evaluate(Push(M, [node |-> ctrl.node, pc |-> "condition",
                               block |-> <<>>, si |-> 1]),
                      ctrl.node.condition)
        ELSE LET f == Top(M)
                 node == f.node
                 block == IF f.pc = "block" THEN f.block
                          ELSE IF PyTruthy(ctrl.value) THEN node.then_branch
                          ELSE node.else_branch
                 si == IF f.pc = "block" THEN f.si ELSE 1
                 m == IF f.pc = "block" \/ ctrl.op = "raise" THEN M
                      ELSE TruthTested(M, "if", ctrl.value)
             IN
             IF ctrl.op = "raise"
             THEN Raise(Pop(M), InvalidOperationError(
                     "Couldn't evaluate if statement", node, ctrl.exc))
             ELSE IF si > Len(block) THEN Return(Pop(m), Nil)
             ELSE Evaluate(SetTop(m, [f EXCEPT !.pc = "block", !.block = block,
                                               !.si = si + 1]),
                           block[si]))

\* `for stmt in node.body` of a loop from statement f.si on; header is
\* what the loop does when the body is through
LoopBody(m, f, header) ==
    IF f.si > Len(f.node.body) THEN header
    ELSE IF f.node.body[f.si].kind = "BreakStatement" THEN Return(Pop(m), Nil)
    ELSE Evaluate(SetTop(m, [f EXCEPT !.si = @ + 1]), f.node.body[f.si])

MaximumLoopError(node) ==
    Chained("MaximumLoopError",
            "Maximum loop iterations (" \o ToString(MAX_LOOP_ITERATIONS)
            \o ") exceeded", node.line, node.kind, <<>>)

\* observation: the body of a loop statement starts its runs-th run
BodyRuns(m, runs) ==
    [m EXCEPT !.hist.max_runs = IF runs > @ THEN runs ELSE @]

eval_WhileStatement ==
    /\ Dispatch("WhileStatement")
    /\ Apply(
        IF ctrl.op = "eval"
        THEN Evaluate(Push(M, [node |-> ctrl.node, pc |-> "condition",
                               iteration_count |-> 0, si |-> 1,
                               broken |-> FALSE]),
                      ctrl.node.condition)
        ELSE LET f == Top(M)
                 node == f.node
                 again(m, g) ==
                     Evaluate(SetTop(m, [g EXCEPT !.pc = "condition"]), node.condition)
                 entered == [f EXCEPT !.pc = "body", !.si = 1,
                                      !.iteration_count = @ + 1]
             IN
             IF ctrl.op = "raise"
             THEN Raise(Pop(M), InvalidOperationError(
                     "Couldn't evaluate while statement", node, ctrl.exc))
             ELSE IF f.pc = "body" THEN LoopBody(M, f, again(M, f))
             ELSE LET m == TruthTested(M, "while", ctrl.value) IN
             IF ~PyTruthy(ctrl.value) THEN Return(Pop(m), Nil)
             ELSE IF entered.iteration_count > MAX_LOOP_ITERATIONS
             THEN Raise(Pop(m), InvalidOperationError(
                     "Couldn't evaluate while statement", node,
                     MaximumLoopError(node)))
             ELSE LoopBody(BodyRuns(m, entered.iteration_count), entered,
                           again(BodyRuns(m, entered.iteration_count), entered)))

\* int(end): [kind |-> "value", value], "raise" or "unmodelled"
IntConversion(v) ==
    CASE IsInt(v) -> [kind |-> "value", value |-> IntOf(v)]
      [] v.t = "float" -> [kind |-> "unmodelled"]
      [] v.t = "str" ->
            IF IsDigits(v.s) THEN [kind |-> "value", value |-> ParseInt(v.s)]
            ELSE IF \A i \in 0..(Len(v.s) - 1) : Ch(v.s, i) \notin Digits
            THEN [kind |-> "raise",
                  exc |-> BuiltinException("ValueError",
                              "invalid literal for int() with base 10: "
                              \o ReprStr(v.s))]
            ELSE [kind |-> "unmodelled"]
      [] OTHER ->
            [kind |-> "raise",
             exc |-> BuiltinException("TypeError",
                         "int() argument must be a string, a bytes-like object or "
                         \o "a real number, not '" \o PyTypeName(v) \o "'")]

\* range(start, int(end) + 1, step): its bounds, or what it raises
Range(start, end, step) ==
    LET stop == IntConversion(end)
        NotInteger(v) ==
            [kind |-> "raise",
             exc |-> BuiltinException("TypeError",
                         "'" \o PyTypeName(v)
                         \o "' object cannot be interpreted as an integer")]
    IN
    IF stop.kind # "value" THEN stop
    ELSE IF ~IsInt(start) THEN NotInteger(start)
    ELSE IF ~IsInt(step) THEN NotInteger(step)
    ELSE IF IntOf(step) = 0
    THEN [kind |-> "raise",
          exc |-> BuiltinException("ValueError", "range() arg 3 must not be zero")]
    ELSE [kind |-> "value", next |-> IntOf(start), stop |-> stop.value + 1,
          stride |-> IntOf(step)]

\* one turn of `for i in range(...)`: the next number, or the end
NumericFor(m, f) ==
    LET node == f.node
        more == IF f.stride > 0 THEN f.next < f.stop ELSE f.next > f.stop
        entered == [f EXCEPT !.pc = "body", !.si = 1, !.next = @ + f.stride,
                             !.iteration_count = @ + 1,
                             !.ran = Append(@, Number(f.next))]
        bound == BodyRuns(SetVariable(m, node.var_names[1], Number(f.next)),
                          entered.iteration_count)
    IN
    IF ~more
    THEN Return([Pop(m) EXCEPT !.hist.loop =
                    [done |-> TRUE, start |-> f.start, end |-> f.end,
                     step |-> f.step, ran |-> f.ran]],
                Nil)
    ELSE IF entered.iteration_count > MAX_LOOP_ITERATIONS
    THEN Raise(Pop(m), InvalidOperationError(
            "Couldn't evaluate for statement", node, MaximumLoopError(node)))
    ELSE LoopBody(bound, entered,
                  Return(SetTop(bound, [entered EXCEPT !.si = Len(node.body) + 1]),
                         Nil))

\* one turn of `for item in expr_list`: the next item of the generator,
\* or the end.  No iteration is counted here
GenericFor(m, f) ==
    LET node == f.node
        r == GeneratorNext(m.generators[f.gen], m.tables)
        m1 == [m EXCEPT !.generators[f.gen] = r.gen]
        m2 == SetVariable(m1, node.var_names[1], r.item.items[1])
        m3 == IF Len(node.var_names) > 1
              THEN SetVariable(m2, node.var_names[2], r.item.items[2])
              ELSE m2
        entered == [f EXCEPT !.pc = "body", !.si = 1, !.runs = @ + 1]
        bound == BodyRuns(m3, entered.runs)
    IN
    IF r.exc # <<>>
    THEN Raise(Pop(m1), InvalidOperationError(
            "Couldn't evaluate for statement", node, r.exc))
    ELSE IF r.stop THEN Return(Pop(m1), Nil)
    ELSE LoopBody(bound, entered,
                  Return(SetTop(bound, [entered EXCEPT !.si = Len(node.body) + 1]),
                         Nil))

eval_ForStatement ==
    /\ Dispatch("ForStatement")
    /\ Apply(
        IF ctrl.op = "eval"
        THEN LET node == ctrl.node
                 f == [node |-> node, pc |-> "start", start |-> Nil, end |-> Nil,
                       next |-> 0, stop |-> 0, stride |-> 0, gen |-> 0,
                       iteration_count |-> 0, runs |-> 0, si |-> 1,
                       step |-> Nil, ran |-> <<>>, broken |-> FALSE]
             IN
             IF node.start # NoneNode THEN Evaluate(Push(M, f), node.start)
             ELSE IF node.expr_list # NoneNode
             THEN Evaluate(Push(M, [f EXCEPT !.pc = "expr_list"]), node.expr_list)
             ELSE Return(M, Nil)
        ELSE LET f == Top(M)
                 node == f.node
                 failed(exc) == Raise(Pop(M), InvalidOperationError(
                                   "Couldn't evaluate for statement", node, exc))
                 ranged(g, step) ==
                     LET r == Range(g.start, g.end, step) IN
                     IF r.kind = "unmodelled" THEN Unmodelled(M)
                     ELSE IF r.kind = "raise" THEN failed(r.exc)
                     ELSE NumericFor(M, [g EXCEPT !.next = r.next, !.stop = r.stop,
                                                  !.stride = r.stride,
                                                  !.step = step])
             IN
             IF ctrl.op = "raise" THEN failed(ctrl.exc)
             ELSE CASE f.pc = "start" ->
                         Evaluate(SetTop(M, [f EXCEPT !.pc = "end",
                                                      !.start = ctrl.value]),
                                  node.end)
                    [] f.pc = "end" ->
                         IF node.step # NoneNode
                         THEN Evaluate(SetTop(M, [f EXCEPT !.pc = "step",
                                                           !.end = ctrl.value]),
                                       node.step)
                         ELSE ranged([f EXCEPT !.end = ctrl.value], Number(1))
                    [] f.pc = "step" -> ranged(f, ctrl.value)
                    [] f.pc = "expr_list" ->
                         IF ctrl.value.t = "generator"
                         THEN GenericFor(M, [f EXCEPT !.gen = ctrl.value.ref])
                         ELSE IF ctrl.value.t \in {"str", "tuple"} THEN Unmodelled(M)
                         ELSE failed(InvalidOperationError(
                                         "expr_list is not iterable", node, <<>>))
                    [] f.pc = "body" ->
                         IF f.gen # 0 THEN LoopBody(M, f, GenericFor(M, f))
                         ELSE LoopBody(M, f, NumericFor(M, f)))

eval_FunctionDeclaration ==
    /\ Dispatch("FunctionDeclaration")
    /\ Apply(Return(SetVariable(M, ctrl.node.name, Function(ctrl.node)), Nil))

FunctionCallingError(node, original_exception) ==
    Chained("FunctionCallingError", "Error occurred while calling a function",
            node.line, "FunctionCall", original_exception)

\* the history of this interpreter's own calls of math.randomseed and
\* math.random, kept from one exec to the next: the seed it gave last,
\* the numbers it drew since, the number it drew last
OwnRandom(own, name, args, r) ==
    IF ~r.modelled \/ ~r.ok THEN own
    ELSE IF name = "math.randomseed"
    THEN [own EXCEPT !.seeded = TRUE, !.seed = args[1].n, !.draws = 0]
    ELSE IF name = "math.random"
    THEN [own EXCEPT !.draws = @ + 1, !.drawn = TRUE, !.value = r.value]
    ELSE own

\* function(*args) for a native function or a library method: the
\* machine after the call and what the call returned or raised
CallNative(m, name, args) ==
    LET called(r, direct) ==
            [modelled |-> r.modelled, ok |-> r.ok, value |-> r.value, exc |-> r.exc,
             m |-> [m EXCEPT
                      !.logs = r.st.logs,
                      !.envs[m.environment] = r.st.env,
                      !.generators = r.st.generators,
                      !.random = r.st.random,
                      !.hist.own = OwnRandom(@, name, args, r),
                      !.hist.native = [name |-> name, args |-> args, ok |-> r.ok,
                                       cause |-> IF r.exc = <<>> THEN ""
                                                 ELSE OriginalCause(r.exc).cls,
                                       changed |-> r.st.logs # m.logs
                                                   \/ r.st.env # Environment(m),
                                       bound |-> DOMAIN Environment(m),
                                       value |-> r.value],
                      !.hist.pcall = IF name = "pcall" /\ args # <<>>
                                     THEN [called |-> TRUE, func |-> args[1],
                                           nargs |-> Len(args) - 1,
                                           value |-> r.value,
                                           direct |-> [ok |-> direct.ok,
                                                       value |-> direct.value]]
                                     ELSE @]]
        with(st) ==
            called(NativeCall(name, args, st),
                   IF args # <<>> /\ args[1].t = "native"
                   THEN NativeCall(args[1].name, Tail(args), st)
                   ELSE NotModelled(st))
    IN  with([logs |-> m.logs, env |-> Environment(m),
              generators |-> m.generators, tables |-> m.tables,
              random |-> m.random])

\* local_env = self.environment, without the copy: the caller's own dict
environment_alias(m) ==
    [envs |-> m.envs, id |-> m.environment, tables |-> m.tables]

\* local_env = copy.deepcopy(self.environment): a new dict whose tables are
\* new objects with the same entries
environment_deepcopy(m) ==
    [envs |-> Append(m.envs,
                     [n \in DOMAIN Environment(m) |->
                         IF Environment(m)[n].t = "table"
                         THEN TableRef(Environment(m)[n].ref + Len(m.tables))
                         ELSE Environment(m)[n]]),
     id |-> Len(m.envs) + 1,
     tables |-> m.tables \o m.tables]

\* local_env = self.environment.copy(): a new dict with the same bindings
environment_copy(m) ==
    [envs |-> Append(m.envs, Environment(m)), id |-> Len(m.envs) + 1,
     tables |-> m.tables]

\* a call that leaves without the finally clause
finally_skip(m) == m

\* finally: self.environment = self.environment_stack.pop()
finally_pop(m) ==
    [m EXCEPT !.environment = m.environment_stack[Len(m.environment_stack)],
              !.environment_stack = SubSeq(@, 1, Len(@) - 1)]

\* the dicts that nothing refers to any more are gone: a dict is referred
\* to as the active environment, from the stack, or as the local_env of
\* a call that evaluates its arguments
Collect(m) ==
    LET live == {m.environment}
                \cup {m.environment_stack[i] : i \in 1..Len(m.environment_stack)}
                \cup {m.kont[i].local_env :
                        i \in {j \in 1..Len(m.kont) :
                                  m.kont[j].node.kind = "FunctionCall"}}
    IN  [m EXCEPT !.envs = SubSeq(@, 1, CHOOSE n \in live : \A k \in live : k <= n)]

\* a parameter that leaves a binding of its name as it is
bind_unbound_parameter(local_env, param, value) ==
    IF param \in DOMAIN local_env THEN local_env
    ELSE DictSet(local_env, param, value)

\* local_env[param] = self.evaluate(arg)
bind_parameter(local_env, param, value) ==
    DictSet(local_env, param, value)

\* a call that takes any number of arguments
arity_unchecked(node, function) == FALSE

\* len(node.arguments) != len(function.params)
arity_mismatch(node, function) ==
    Len(node.arguments) # Len(function.node.params)

\* the loop over function.body from statement f.si on, and the exit of
\* the call
FunctionBody(m, f) ==
    LET body == f.function.node.body
        left == Collect(finally_pop([Pop(m) EXCEPT !.return_value = Nil]))
        seen == [left EXCEPT
                   !.hist.call = [returned |-> TRUE, before |-> f.entered,
                                  after |-> Environment(left)],
                   !.hist.yield = [done |-> TRUE, first |-> f.first,
                                   value |-> m.return_value],
                   !.hist.shared = IF f.wrote.done
                                   THEN [f.wrote EXCEPT !.caller = Environment(left),
                                                        !.tables = left.tables]
                                   ELSE @,
                   !.hist.returned = IF f.node.arguments = <<>>
                                     THEN DictSet(@, f.node.name, m.return_value)
                                     ELSE @]
    IN
    IF m.return_value # Nil \/ f.si > Len(body) THEN Return(seen, m.return_value)
    ELSE Evaluate(SetTop(m, [f EXCEPT !.si = @ + 1]), body[f.si])

\* the call proper, once local_env holds the arguments
EnterBody(m, f) ==
    LET entered == [f EXCEPT !.pc = "body", !.si = 1, !.entered = Environment(m),
                             !.started = m.envs[f.local_env]]
    IN  FunctionBody([SetTop(m, entered) EXCEPT
                         !.environment_stack = Append(@, m.environment),
                         !.environment = f.local_env,
                         !.return_value = Nil],
                     entered)

eval_FunctionCall ==
    /\ Dispatch("FunctionCall")
    /\ Apply(
        IF ctrl.op = "eval"
        THEN LET node == ctrl.node
                 function == DictGet(Environment(M), node.name)
                 called == CallNative(M, function.name, <<>>)
                 copy == environment_copy(M)
                 f == [node |-> node, pc |-> "args", function |-> function,
                       args |-> <<>>, i |-> 1, local_env |-> 0, si |-> 1,
                       entered |-> EmptyDict, returned |-> FALSE,
                       first |-> <<>>,
                       at_call |-> Environment(M), started |-> EmptyDict,
                       wrote |-> NotWritten]
                 g == [f EXCEPT !.local_env = copy.id]
             IN
             IF ~PyTruthy(function)
             THEN Raise(M, FunctionCallingError(node,
                     Chained("FunctionNotDeclaredError",
                             "Function '" \o node.name \o "' is not declared.",
                             node.line, "FunctionCall", <<>>)))
             ELSE IF function.t = "native"
             THEN IF node.arguments # <<>>
                  THEN Evaluate(Push(M, [f EXCEPT !.pc = "native"]), node.arguments[1])
                  ELSE IF ~called.modelled THEN Unmodelled(M)
                  ELSE IF called.ok THEN Return(called.m, called.value)
                  ELSE Raise(called.m, FunctionCallingError(node, called.exc))
             ELSE IF function.t # "function"
             THEN Raise(M, FunctionCallingError(node,
                     Chained("InvalidOperationError",
                             "'" \o node.name \o "' is not a function.",
                             node.line, "FunctionCall", <<>>)))
             ELSE IF arity_mismatch(node, function)
             THEN Raise(M, FunctionCallingError(node,
                     Chained("FunctionArgumentError",
                             "Function '" \o node.name \o "' expects "
                             \o ToString(Len(function.node.params))
                             \o " arguments but got "
                             \o ToString(Len(node.arguments)) \o ".",
                             node.line, "FunctionCall", <<>>)))
             ELSE IF node.arguments # <<>>
             THEN Evaluate(Push([M EXCEPT !.envs = copy.envs,
                                          !.tables = copy.tables], g),
                           node.arguments[1])
             ELSE EnterBody(Push([M EXCEPT !.envs = copy.envs,
                                           !.tables = copy.tables], g), g)
        ELSE LET f == Top(M)
                 node == f.node
                 args == Append(f.args, ctrl.value)
                 called == CallNative(Pop(M), f.function.name, args)
                 bound == [M EXCEPT !.envs[f.local_env] =
                              bind_parameter(@, f.function.node.params[f.i],
                                             ctrl.value)]
             IN
             IF ctrl.op = "raise"
             THEN Raise(Collect(IF f.pc = "body" THEN finally_pop(Pop(M)) ELSE Pop(M)),
                        FunctionCallingError(node, ctrl.exc))
             ELSE CASE f.pc = "native" ->
                         IF f.i < Len(node.arguments)
                         THEN Evaluate(SetTop(M, [f EXCEPT !.args = args, !.i = @ + 1]),
                                       node.arguments[f.i + 1])
                         ELSE IF ~called.modelled THEN Unmodelled(M)
                         ELSE IF called.ok THEN Return(called.m, called.value)
                         ELSE Raise(called.m, FunctionCallingError(node, called.exc))
                    [] f.pc = "args" ->
                         IF f.i < Len(node.arguments)
                         THEN Evaluate(SetTop(bound, [f EXCEPT !.i = @ + 1,
                                                               !.args = args]),
                                       node.arguments[f.i + 1])
                         ELSE EnterBody(bound, [f EXCEPT !.args = args])
                    [] f.pc = "body" -> FunctionBody(M, f))

\* observation: a return statement of the innermost user-function call
\* in progress has executed; first keeps the value of the first one
ReturnExecuted(m) ==
    LET calls == {i \in 1..Len(m.kont) :
                     m.kont[i].node.kind = "FunctionCall" /\ m.kont[i].pc = "body"}
        innermost == CHOOSE i \in calls : \A j \in calls : j <= i
    IN  IF calls = {} THEN m
        ELSE [m EXCEPT !.kont[innermost].returned = TRUE,
                       !.kont[innermost].first =
                           IF m.kont[innermost].returned THEN @
                           ELSE <<m.return_value>>]

eval_ReturnStatement ==
    /\ Dispatch("ReturnStatement")
    /\ Apply(
        IF ctrl.op = "eval"
        THEN Evaluate(Push(M, [node |-> ctrl.node]), ctrl.node.value)
        ELSE IF ctrl.op = "raise"
        THEN Raise(Pop(M), Chained("ReturnError", "Couldn't return",
                                   Top(M).node.line, "ReturnStatement", ctrl.exc))
        ELSE Return(ReturnExecuted([Pop(M) EXCEPT !.return_value = ctrl.value]),
                    Nil))

\* observation: a break statement has executed in the body of the
\* innermost loop in progress of the function being run
BreakExecuted(m) ==
    LET calls == {i \in 1..Len(m.kont) :
                     m.kont[i].node.kind = "FunctionCall" /\ m.kont[i].pc = "body"}
        loops == {i \in 1..Len(m.kont) :
                     /\ m.kont[i].node.kind \in {"ForStatement", "WhileStatement"}
                     /\ m.kont[i].pc = "body"
                     /\ \A j \in calls : j < i}
    IN  IF loops = {} THEN m
        ELSE [m EXCEPT !.kont[CHOOSE i \in loops : \A j \in loops : j <= i].broken
                           = TRUE]

eval_BreakStatement ==
    /\ Dispatch("BreakStatement")
    /\ Apply(Return(BreakExecuted(M), Nil))

eval_Object ==
    /\ Dispatch("Object")
    /\ Apply(Return(M, DictGet(Environment(M), ctrl.node.name)))

\* an object without the attribute read from it
AttributeError(obj, attribute) ==
    BuiltinException("AttributeError",
        "'" \o PyTypeName(obj) \o "' object has no attribute '" \o attribute \o "'")

eval_MethodChain ==
    /\ Dispatch("MethodChain")
    /\ Apply(
        IF ctrl.op = "eval"
        THEN Evaluate(Push(M, [node |-> ctrl.node]), ctrl.node.parent)
        ELSE LET node == Top(M).node
                 parent == ctrl.value
                 library == LibraryOf(parent.name)
                 attribute == DictGet(library.attributes, node.name)
                 message == "Couldn't evaluate method chain '" \o node.name \o "'"
                 NotFound(name) ==
                     Chained("FunctionNotDeclaredError",
                             "'" \o node.name \o "' not found in library '"
                             \o name \o "'", node.line, "MethodChain", <<>>)
             IN
             IF ctrl.op = "raise"
             THEN Raise(Pop(M), InvalidOperationError(message, node, ctrl.exc))
             ELSE IF parent.t = "library"
             THEN IF attribute # Nil
                  THEN Return([Pop(M) EXCEPT
                                  !.hist.attribute =
                                     [library |-> parent.name, name |-> node.name,
                                      yielded |-> TRUE],
                                  !.hist.member =
                                     [done |-> TRUE, library |-> parent.name,
                                      name |-> node.name, value |-> attribute]],
                              attribute)
                  ELSE IF node.name \in library.methods
                  THEN Return([Pop(M) EXCEPT !.hist.member =
                                  [done |-> TRUE, library |-> parent.name,
                                   name |-> node.name,
                                   value |-> Native(parent.name \o "."
                                                    \o node.name)]],
                              Native(parent.name \o "." \o node.name))
                  ELSE Raise(Pop(M), InvalidOperationError(message, node,
                                                           NotFound(parent.name)))
             ELSE IF parent.t = "function"
             THEN Raise(Pop(M), InvalidOperationError(message, node,
                                                      NotFound(parent.node.name)))
             ELSE Raise(Pop(M), InvalidOperationError(message, node,
                                                      AttributeError(parent, "name"))))

\* observation: a method call looked its method up in parent and found
\* it, or failed with the given original cause
MethodLooked(out, parent, name, found) ==
    [out EXCEPT !.hist.method =
        [looked |-> TRUE, parent |-> parent, name |-> name, found |-> found,
         cause |-> IF found THEN "" ELSE OriginalCause(out.ctrl.exc).cls]]

eval_MethodCall ==
    /\ Dispatch("MethodCall")
    /\ Apply(
        IF ctrl.op = "eval"
        THEN Evaluate(Push(M, [node |-> ctrl.node, pc |-> "parent", method |-> "",
                               args |-> <<>>, i |-> 1]),
                      ctrl.node.parent)
        ELSE LET f == Top(M)
                 node == f.node
                 parent == ctrl.value
                 message == "Couldn't call method '" \o node.name \o "'"
                 failed(exc) == Raise(Pop(M), InvalidOperationError(message, node, exc))
                 call(method, args) ==
                     LET called == CallNative(Pop(M), method, args) IN
                     IF ~called.modelled THEN Unmodelled(M)
                     ELSE IF called.ok THEN Return(called.m, called.value)
                     ELSE Raise(called.m,
                                InvalidOperationError(message, node, called.exc))
                 looked(out, found) == MethodLooked(out, parent, node.name, found)
             IN
             IF ctrl.op = "raise" THEN failed(ctrl.exc)
             ELSE IF f.pc = "parent"
             THEN IF parent.t = "nil"
                  THEN looked(failed(Chained("FunctionNotDeclaredError",
                                             "Parent library or method not found",
                                             node.line, "MethodCall", <<>>)),
                              FALSE)
                  ELSE IF parent.t # "library"
                  THEN looked(failed(AttributeError(parent, "methods")), FALSE)
                  ELSE IF node.name \notin LibraryOf(parent.name).methods
                  THEN looked(failed(Chained("InvalidOperationError",
                                             "'" \o node.name
                                             \o "' is not a callable method",
                                             node.line, "MethodCall", <<>>)),
                              FALSE)
                  ELSE IF node.arguments = <<>>
                  THEN looked(call(parent.name \o "." \o node.name, <<>>), TRUE)
                  ELSE looked(Evaluate(SetTop(M, [f EXCEPT !.pc = "args",
                                                    !.method = parent.name \o "."
                                                               \o node.name]),
                                       node.arguments[1]),
                              TRUE)
             ELSE IF f.i < Len(node.arguments)
             THEN Evaluate(SetTop(M, [f EXCEPT !.args = Append(@, ctrl.value),
                                               !.i = @ + 1]),
                           node.arguments[f.i + 1])
             ELSE call(f.method, Append(f.args, ctrl.value)))

-----------------------------------------------------------------------------
(* The host.  It constructs an Interpreter, then calls exec, reset,        *)
(* clear_logs and reset_environment in any order.  The first exec of a     *)
(* behaviour runs any of Sources, a later one any of FollowUps.            *)

Sources ==
    { "local x = 1\nfunction f(a)\n  x = a\n  local y = 3\n  return x\nend\nlocal r = f(2)\nprint(x, r)",
      "function g() return h() end\nfunction f() return g() end\nf()",
      "local x = 1\nfunction g(b)\n  x = b\n  return b\nend\nfunction f(a)\n  local y = g(a + 1)\n  require(\"mylib\")\n  return y\nend\nprint(f(2), x)",
      "function f() return 1 end\nlocal a = f()\nlocal r = pcall(f)\nprint(a, r)",
      "function f(a, b) return a end\nf(1)",
      "function f()\n  if true then\n    return 1\n    print(\"after\")\n  end\n  print(\"end\")\nend\nprint(f())",
      "function f()\n  return nil\n  print(\"after\")\nend\nf()",
      "function f()\n  for i = 1, 2 do\n    return i\n  end\n  print(\"end\")\nend\nprint(f())",
      "local i = 0\nwhile true do i = i + 1 end",
      "local i = 0\nwhile i < 2 do\n  i = i + 1\n  if i == 2 then break end\nend\nprint(i)",
      "local s = 0\nfor i = 1, 5 do s = s + i end",
      "for i = 2, 1, -1 do print(i) end",
      "for i = 3, 1, -1 do print(i) end",
      "for i = 1, 3 do print(i) end",
      "for i = 0, 3, 2 do print(i) end",
      "for i = 3, 1 do print(i) end",
      "local t = {1}\nfor i, v in ipairs(t) do t[#t + 1] = 0 end",
      "local t = {7, 8}\nfor i, v in ipairs(t) do print(i, v) end",
      "local d = {a = 1}\nfor k, v in pairs(d) do print(k .. \"=\" .. v) end",
      "for i in 5 do end",
      "print(pcall(error, \"boom\"))\nprint(pcall(tostring, 5))",
      "print(type(nil), type(print), tostring(true))\nassert(false, \"no\")",
      "pcall(print, \"a\", 1)\nprint(y)",
      "print()\nprint(\"a\", \"b\")",
      "require(\"mylib\")\nprint(mylib.version, mylib.answer())",
      "local mylib = 0\nrequire(\"mylib\")\nprint(mylib.version)",
      "require(\"mylib\")\nrequire(\"mylib\")",
      "require(\"nolib\")",
      "return 5",
      "math.randomseed(7)\nlocal r = math.random(9)",
      "local t = {10, 20}\nt[3] = 30\nprint(t[1] + t[3], #t, -t[2], not t)",
      "local t = {10}\nprint(t[true])",
      "local t = {}\nt[true] = 5\nprint(#t)",
      "local t = {}\nt[true] = 5\nt[1] = 6\nprint(#t, t[1])",
      "local t = {7, nil, 9}\nt[2] = 8\nt[5] = 1\nprint(#t, t[1], t[2], t[3], t[5])",
      "local t = {10}\nt[\"a\"] = 1",
      "local d = {a = 1}\nd[\"b\"] = 2\nprint(d[\"b\"], #d)\nprint(d[1])",
      "local x = 3\nif x > 4 then x = 0 else x = x * 2 end\nx",
      "if false then\n  print(\"a\")\nelseif true then\n  print(\"b\")\nelse\n  print(\"c\")\nend",
      "if false then\n  print(\"a\")\nelseif false then\n  print(\"b\")\nelse\n  print(\"c\")\nend",
      "if true then\n  print(\"a\")\nelseif true then\n  print(\"b\")\nelse\n  print(\"c\")\nend",
      "local s = \"a\nb\" @",
      "local x = [[a\nb]]\n@",
      "-- c\nlocal x = 1 @",
      "local = 1",
      "y = 1",
      "print(y)",
      "local t = {}\nz[1] = 2",
      "local x = -y",
      "function f(a)\n  if a then\n    return 1 + nil\n  end\nend\nf(true)",
      "local x = 1 + nil",
      "io.write(\"hi\")",
      "os.getenv()",
      "os.getenv(\"HOME\")",
      "coroutine.yield(1)",
      "local p = package.path\nprint(p)",
      "package.loadlib(\"x\")",
      "local n = io.nothing",
      "for i = 1, 3 do\n  if i == 1 then break end\n  print(i)\nend\nprint(\"out\")",
      "for i = 1, 3 do\n  print(i)\n  break\n  print(\"no\")\nend\nprint(\"out\")",
      "if 0 then print(\"t\") else print(\"f\") end",
      "local i = \"\"\nwhile i do\n  print(not i, i and 1, i or 2)\n  i = nil\nend",
      "local t = {}\nif t then print(not nil, nil or 1, false and 1, 1 and 2, not 1) end",
      "function f(a, b)\n  print(\"body\")\nend\nprint(\"before\")\nf(print(\"arg\"))",
      "require(\"mylib\")\nmylib.nothing()",
      "nolib.m()",
      "require(\"mylib\")\nmylib.version()",
      "require(\"mylib\")\nlocal a = mylib.version\nlocal b = mylib.answer\nprint(a, b())",
      "local a = 1\nfunction f(a)\n  print(a, x)\nend\nlocal x = 2\nf(3)\nprint(a)",
      "function f(a)\n  print(a, mylib)\nend\nf(require(\"mylib\"))",
      "print(\"a\")\nlocal x = 1\nlocal = 2",
      "print(\"a\")\nlocal x = 1 @",
      "local t = {1}\nfunction f()\n  t[1] = 5\n  t[2] = 6\n  t = 0\n  print(t)\nend\nf()\nprint(t[1], t[2], #t)",
      "local d = {a = 1}\nfunction f(k, v)\n  d[k] = v\n  d = nil\nend\nf(\"b\", 2)\nprint(d[\"a\"], d[\"b\"])",
      "print(1)\nend\nprint(2)",
      "if true then print(1) end else print(2)",
      "function f()\n  if true then\n    return 1\n    return 2\n  end\nend\nprint(f())",
      "function g() return 9 end\nfunction f()\n  if true then\n    return 1\n    g()\n  end\n  print(\"on\")\nend\nprint(f())",
      "break" }

FollowUps ==
    { "print(x)", "return 5", "local x = 7", "local r = math.random(1, 9)",
      "print(\"z\")\nlocal = 1" }

\* the seeds another interpreter of the process gives to math.randomseed
OtherSeeds == {1}

\* Interpreter(libraries): Evaluator.__init__
Init ==
    /\ envs = <<InitialEnvironment>>
    /\ environment = 1
    /\ environment_stack = <<>>
    /\ logs = ""
    /\ return_value = Nil
    /\ tables = <<>>
    /\ generators = <<>>
    /\ code = ""
    /\ ctrl = Idle
    /\ kont = <<>>
    /\ phase = "idle"
    /\ result = ExecResult(Nil)
    /\ execs = 0
    /\ hist = NoHistory
    /\ lex = LexerStart
    /\ parsing = ParserStart
    /\ random = RandomStart

Next ==
    \/ \E source \in (IF execs = 0 THEN Sources ELSE FollowUps) : exec(source)
    \/ exec_return
    \/ \E seed \in OtherSeeds : other_exec("math.randomseed", <<Number(seed)>>)
    \/ clear_logs
    \/ reset_environment
    \/ reset
    \/ eval_Root
    \/ eval_Literal
    \/ eval_Table
    \/ eval_VariableDeclaration
    \/ eval_VariableAssignment
    \/ eval_VariableReference
    \/ eval_UnaryOperation
    \/ eval_BinaryOperation
    \/ eval_IfStatement
    \/ eval_ForStatement
    \/ eval_WhileStatement
    \/ eval_FunctionDeclaration
    \/ eval_FunctionCall
    \/ eval_ReturnStatement
    \/ eval_BreakStatement
    \/ eval_Object
    \/ eval_MethodChain
    \/ eval_MethodCall

Spec == Init /\ [][Next]_vars

-----------------------------------------------------------------------------
(* The lexer on its own: Lexer.tokenize run step by step on every source   *)
(* made of at most MaxLexLen of the pieces below.                          *)

LexPieces == <<"\"", "'", "\n", "@", "--", "[[", "]]", "a", " ">>

RECURSIVE LexSources(_)
LexSources(n) ==
    IF n = 0 THEN {""}
    ELSE LexSources(n - 1)
         \cup {s \o LexPieces[i] : s \in LexSources(n - 1), i \in 1..Len(LexPieces)}

InitLexer ==
    /\ envs = <<InitialEnvironment>>
    /\ environment = 1
    /\ environment_stack = <<>>
    /\ logs = ""
    /\ return_value = Nil
    /\ tables = <<>>
    /\ generators = <<>>
    /\ code \in LexSources(MaxLexLen)
    /\ ctrl = Idle
    /\ kont = <<>>
    /\ phase = "idle"
    /\ result = ExecResult(Nil)
    /\ execs = 0
    /\ hist = NoHistory
    /\ lex = LexerStart
    /\ parsing = ParserStart
    /\ random = RandomStart

\* one turn of the loop of Lexer.tokenize on code
tokenize_step ==
    /\ ~lex.done
    /\ lex' = TokenizeStep(code, lex)
    /\ UNCHANGED <<environment, environment_stack, envs, logs, return_value,
                   tables, generators, code, ctrl, kont, phase, result, execs,
                   hist, parsing, random>>

NextLexer == tokenize_step

SpecLexer == InitLexer /\ [][NextLexer]_vars

-----------------------------------------------------------------------------
(* The parser on its own: Parser(tokens, code).parse() on the tokens of   *)
(* the expression 'a op1 b op2 c', for every two binary operators and     *)
(* primary operands of every shape parse_primary takes.                   *)

\* the binary operators as the lexer rules spell them
BinaryOperators ==
    {"or", "and", "==", "~=", "<", ">", "<=", ">=", "+", "-", "*", "/", "%",
     "..", "^"}

\* primary expressions: an indexed reference, a unary operation on a
\* literal, a parenthesized expression
PrimaryOperands == {"t[1]", "-2", "(p or q)"}

ParserInputs ==
    [a : PrimaryOperands, op1 : BinaryOperators, b : PrimaryOperands,
     op2 : BinaryOperators, c : PrimaryOperands]

InitParser ==
    /\ envs = <<InitialEnvironment>>
    /\ environment = 1
    /\ environment_stack = <<>>
    /\ logs = ""
    /\ return_value = Nil
    /\ tables = <<>>
    /\ generators = <<>>
    /\ \E in \in ParserInputs :
          /\ code = in.a \o " " \o in.op1 \o " " \o in.b \o " " \o in.op2
                    \o " " \o in.c
          /\ parsing = [ParserStart EXCEPT !.input = in]
    /\ ctrl = Idle
    /\ kont = <<>>
    /\ phase = "idle"
    /\ result = ExecResult(Nil)
    /\ execs = 0
    /\ hist = NoHistory
    /\ lex = LexerStart
    /\ random = RandomStart

\* exec: tokens = lexer.tokenize(code)
parser_tokenize ==
    /\ parsing.stage = "start"
    /\ LET lexed == tokenize(code) IN
       parsing' = IF lexed.error # <<>> THEN [parsing EXCEPT !.stage = "failed"]
                  ELSE [parsing EXCEPT !.stage = "tokens", !.tokens = lexed.tokens]
    /\ UNCHANGED <<environment, environment_stack, envs, logs, return_value,
                   tables, generators, code, ctrl, kont, phase, result, execs,
                   hist, lex, random>>

\* exec: ast = Parser(tokens, code).parse()
parser_parse ==
    /\ parsing.stage = "tokens"
    /\ LET parsed == parse(parsing.tokens) IN
       parsing' = IF ~parsed.ok THEN [parsing EXCEPT !.stage = "failed"]
                  ELSE [parsing EXCEPT !.stage = "parsed", !.ast = parsed.node]
    /\ UNCHANGED <<environment, environment_stack, envs, logs, return_value,
                   tables, generators, code, ctrl, kont, phase, result, execs,
                   hist, lex, random>>

NextParser == parser_tokenize \/ parser_parse

SpecParser == InitParser /\ [][NextParser]_vars

-----------------------------------------------------------------------------
(* Properties of the interpreter, under Spec unless another specification *)
(* is named.                                                              *)

\* the user-function calls in progress: the FunctionCall frames whose
\* body is being run
CallsInProgress ==
    {i \in 1..Len(kont) : kont[i].node.kind = "FunctionCall" /\ kont[i].pc = "body"}

\* C1: when a call of a user-defined function has returned, the caller's
\* environment binds exactly the names, to exactly the values, it bound
\* when the body started: no assignment and no declaration of the body
\* shows in it.
C1_CallLeavesCallerEnvironment ==
    hist.call.returned => hist.call.after = hist.call.before

\* a call whose body assigned the caller's x and declared y has returned,
\* and the caller printed its own x (1) next to the body's x (2)
C1_Witness ==
    /\ hist.call.returned
    /\ "x" \in DOMAIN hist.call.before
    /\ hist.call.before["x"] = Number(1)
    /\ "y" \notin DOMAIN hist.call.before
    /\ logs = "1 2\n"

\* C2: the environment stack is as deep as there are user-function calls
\* in progress, and when exec has returned, with or without an error, the
\* stack is empty and the active environment is the one that was active
\* when exec was called.
C2_StackBalanced ==
    /\ Len(environment_stack) = Cardinality(CallsInProgress)
    /\ (phase = "idle" /\ execs > 0) =>
          /\ environment_stack = <<>>
          /\ environment = hist.top_env

\* exec has returned an error raised inside three nested calls
C2_Witness ==
    /\ phase = "idle"
    /\ execs > 0
    /\ ~result.success
    /\ Cardinality({i \in 1..Len(result.error) :
                      result.error[i].cls = "FunctionCallingError"}) >= 3
    /\ environment_stack = <<>>

\* C3: no loop statement runs its body more than MAX_LOOP_ITERATIONS times.
C3_LoopBound ==
    hist.max_runs <= MAX_LOOP_ITERATIONS

\* C4: pcall(f) returns (true, v) when f() returns v and (false, message)
\* when f() raises, for a native f and for a user-defined f; it never
\* raises.
C4_PcallMirrorsCall ==
    (hist.pcall.called /\ hist.pcall.nargs = 0) =>
        LET f == hist.pcall.func
            v == hist.pcall.value
            direct == hist.pcall.direct
        IN
        /\ v.t = "tuple"
        /\ Len(v.items) = 2
        /\ (f.t = "function" /\ f.node.name \in DOMAIN hist.returned) =>
              v = Tuple(<<Bool(TRUE), hist.returned[f.node.name]>>)
        /\ f.t = "native" =>
              IF direct.ok THEN v = Tuple(<<Bool(TRUE), direct.value>>)
              ELSE v.items[1] = Bool(FALSE)

\* C5: after reset() the interpreter is in the state of a new one: the
\* initial bindings, an empty stack, empty logs, no pending return value.
C5_ResetIsFresh ==
    hist.reset =>
        /\ envs[environment] = InitialEnvironment
        /\ environment_stack = <<>>
        /\ logs = ""
        /\ return_value = Nil

\* C6: exec lets no exception through; it returns success with the value
\* of the last top-level statement when no stage raised, and failure with
\* the error exactly when the lexer, the parser or the evaluator raised.
C6_ExecReturnsPair ==
    (phase = "idle" /\ execs > 0) =>
        /\ ~result.propagated
        /\ result.success <=> hist.stage = "none"
        /\ result.success => (result.value = hist.last_value /\ result.error = <<>>)
        /\ ~result.success => result.error # <<>>

\* exec has returned the error the evaluator raised
C6_Witness ==
    /\ phase = "idle"
    /\ execs > 0
    /\ hist.stage = "evaluator"
    /\ ~result.success
    /\ ~result.propagated
    /\ "VariableNotDeclaredError" \in Classes(result.error)

\* C7 (SpecLexer): the line of the SyntaxError for an unknown character is
\* 1 + the number of newlines before that character.
C7_ErrorLine ==
    lex.error # <<>> =>
        lex.error[1].line
            = 1 + CountNewlines(Slice(code, 0, lex.error[1].position))

\* C8: an exec that read or assigned a name the active environment does
\* not bind fails with VariableNotDeclaredError in the chain of causes of
\* its error, and has not bound the name.
C8_UnboundNameFails ==
    (phase = "idle" /\ hist.unbound # "") =>
        /\ ~result.success
        /\ "VariableNotDeclaredError" \in Classes(result.error)
        /\ hist.unbound \notin DOMAIN envs[environment]

\* the methods of io and coroutine, and the methods of os that touch the
\* host
BlockedMethods ==
    {"io." \o n : n \in libraries.io.methods}
    \cup {"coroutine." \o n : n \in libraries.coroutine.methods}
    \cup {"os.execute", "os.exit", "os.getenv", "os.remove", "os.rename",
          "os.setlocale", "os.tmpname"}

\* C9: a call of a blocked method fails with PermissionError as the
\* original cause, whatever its arguments, and changes neither the
\* environment nor the logs.
C9_BlockedMethodsRefuse ==
    hist.native.name \in BlockedMethods =>
        /\ ~hist.native.ok
        /\ hist.native.cause = "PermissionError"
        /\ ~hist.native.changed

\* C10: an access to an attribute of package yields no value.
C10_PackageAttributesRefuse ==
    hist.attribute.library = "package" => ~hist.attribute.yielded

\* C11: require(n) fails with ImportError and changes nothing whenever no
\* registered library is named n or n is already bound in the active
\* environment, to any value; otherwise it returns the registered library
\* and binds n to it.
C11_RequireFailsWhenBound ==
    (hist.native.name = "require" /\ Len(hist.native.args) = 1
        /\ hist.native.args[1].t = "str") =>
        LET n == hist.native.args[1].s IN
        IF n \notin DOMAIN host_libraries \/ n \in hist.native.bound
        THEN /\ ~hist.native.ok
             /\ hist.native.cause = "ImportError"
             /\ ~hist.native.changed
        ELSE /\ hist.native.ok
             /\ hist.native.value = LibraryRef(n)
             /\ hist.native.changed

\* the arguments print receives in a native call, directly or through
\* pcall; <<Nil>> stands for "print is not reached"
RECURSIVE PrintArguments(_, _)
PrintArguments(name, args) ==
    IF name = "print" THEN <<args>>
    ELSE IF name = "pcall" /\ args # <<>> /\ args[1].t = "native"
    THEN PrintArguments(args[1].name, Tail(args))
    ELSE <<>>

\* the step is a call that reaches print and appends its line to logs
PrintAppends ==
    /\ eval_FunctionCall
    /\ LET p == PrintArguments(hist'.native.name, hist'.native.args) IN
       /\ p # <<>>
       /\ logs' = logs \o Join([i \in 1..Len(p[1]) |-> PyStr(p[1][i], tables)], " ")
                       \o "\n"

\* C12: logs is append-only under script execution: a step changes logs
\* only when a print call appends its line (the arguments joined by single
\* spaces, then a newline), so what was printed before a later failure
\* stays, and only clear_logs and reset shorten it.
C12_LogsAppendOnly ==
    [][/\ logs' # logs => (PrintAppends \/ clear_logs \/ reset)
       /\ Len(logs') < Len(logs) => (clear_logs \/ reset)]_vars
C12_Witness ==
    /\ phase = "idle"
    /\ ~result.success
    /\ hist.source = "pcall(print, \"a\", 1)\nprint(y)"
    /\ logs = "a 1\n"

\* the kind of key a table of the given flag takes
KeyKind(is_array) == IF is_array THEN "int" ELSE "str"

\* C13: every key of an array table is an integer and every key of a
\* dictionary table is a string, and an indexed read or write whose key
\* kind does not match the table's is_array flag fails with a type error
\* and leaves the entries unchanged.
C13_TableKeysMatchFlag ==
    /\ \A i \in 1..Len(tables) : \A j \in 1..Len(tables[i].entries) :
          tables[i].entries[j][1].t = KeyKind(tables[i].is_array)
    /\ (hist.item.op # "" /\ hist.item.key.t # KeyKind(hist.item.is_array)) =>
          /\ ~hist.item.ok
          /\ hist.item.cause = "TypeError"
          /\ hist.item.after = hist.item.before

\* C14: for an array table #t is the number of its entries: a constructor
\* with N positional elements gives N entries with the keys 1..N in order,
\* an indexed assignment to an integer key leaves the number of entries as
\* it is when the key is present and adds exactly one when it is not.
C14_ArrayLength ==
    /\ (hist.length.taken /\ hist.length.is_array) =>
          hist.length.value = Number(Len(hist.length.entries))
    /\ (hist.constructed.done /\ hist.constructed.is_array) =>
          /\ Len(hist.constructed.entries) = hist.constructed.elements
          /\ \A i \in 1..hist.constructed.elements :
                hist.constructed.entries[i][1] = Number(i)
    /\ (hist.item.op = "set" /\ hist.item.is_array /\ hist.item.key.t = "int") =>
          /\ hist.item.ok
          /\ Len(hist.item.after) =
                Len(hist.item.before)
                + (IF \E j \in 1..Len(hist.item.before) :
                         hist.item.before[j][1] = hist.item.key
                   THEN 0 ELSE 1)

\* the token type of a binary operator, and the tree of a primary operand
\* parsed on its own
OperatorType(op) == tokenize(op).tokens[1].type
OperandTree(text) == parse(tokenize(text).tokens).node.body[1]

\* BinaryOperation nodes compared without their line
SameOperation(node, left, op, right) ==
    /\ node.kind = "BinaryOperation"
    /\ node.operator = OperatorType(op)
    /\ node.left = left
    /\ node.right = right

\* C15: for primary operands a, b, c and binary operators op1, op2 of
\* different levels of the precedence table, 'a op1 b op2 c' parses as
\* (a op1 b) op2 c when op1 has the higher level and as a op1 (b op2 c)
\* when op2 has the higher level.
C15_PrecedenceGrouping ==
    LET in == parsing.input
        level1 == precedence[OperatorType(in.op1)]
        level2 == precedence[OperatorType(in.op2)]
        top == parsing.ast.body[1]
    IN  /\ parsing.stage # "failed"
        /\ (parsing.stage = "parsed" /\ level1 # level2) =>
              /\ Len(parsing.ast.body) = 1
              /\ IF level1 > level2
                 THEN /\ SameOperation(top, top.left, in.op2, OperandTree(in.c))
                      /\ SameOperation(top.left, OperandTree(in.a), in.op1,
                                       OperandTree(in.b))
                 ELSE /\ SameOperation(top, OperandTree(in.a), in.op1, top.right)
                      /\ SameOperation(top.right, OperandTree(in.b), in.op2,
                                       OperandTree(in.c))

\* '-2 or t[1] ^ (p or q)' is parsed with ^ below or
C15_Witness ==
    /\ parsing.stage = "parsed"
    /\ parsing.input = [a |-> "-2", op1 |-> "or", b |-> "t[1]", op2 |-> "^",
                        c |-> "(p or q)"]
    /\ parsing.ast.body[1].operator = "OR"
    /\ parsing.ast.body[1].right.operator = "POW"

\* the nodes of path have, in order, each a wrapper of its own in chain:
\* a chained exception carrying the node's line and variant name
RECURSIVE Wrapped(_, _)
Wrapped(path, chain) ==
    IF path = <<>> THEN TRUE
    ELSE IF chain = <<>> THEN FALSE
    ELSE IF /\ chain[1].cls \in ChainedClasses
            /\ chain[1].line = path[1].line
            /\ chain[1].node_name = path[1].kind
    THEN Wrapped(Tail(path), Tail(chain))
    ELSE Wrapped(path, Tail(chain))

\* C16: when exec fails while evaluating, the error it returns is a
\* chained exception whose cause links visit, outermost first, at least
\* one wrapper for each node from Root to the failing node, each with that
\* node's line and variant name, and end at the error first raised.
C16_ErrorChain ==
    (phase = "idle" /\ execs > 0 /\ hist.stage = "evaluator") =>
        /\ ~result.success
        /\ hist.failure.raised
        /\ result.error[1].cls \in ChainedClasses
        /\ Wrapped(hist.failure.path, result.error)
        /\ <<result.error[Len(result.error)]>> = hist.failure.original

\* C17: interpreter instances are independent: what an exec on this
\* instance gives depends on this instance's own calls only.  After this
\* instance called math.randomseed(s), its k-th call of math.random since
\* then returns the k-th number of the sequence of s, whatever another
\* instance has executed in between.
C17_InstancesIndependent ==
    (hist.own.seeded /\ hist.own.drawn) =>
        /\ hist.own.value.seed = hist.own.seed
        /\ hist.own.value.draw = hist.own.draws

\* a statement of a block is handed to evaluate(): of a function body, of
\* a branch of an if statement, of a loop body
StatementStarts ==
    /\ ctrl.op = "eval"
    /\ kont # <<>>
    /\ LET f == kont[Len(kont)] IN
       \/ f.node.kind = "FunctionCall" /\ f.pc = "body"
       \/ f.node.kind = "IfStatement" /\ f.pc = "block"
       \/ f.node.kind \in {"ForStatement", "WhileStatement"} /\ f.pc = "body"

\* C18: once a return statement has executed during a user-function call,
\* no further statement of that function is executed before the call
\* returns, at any nesting depth and for any returned value, nil included.
C18_ReturnStopsFunction ==
    (StatementStarts /\ CallsInProgress # {}) =>
        ~kont[CHOOSE i \in CallsInProgress : \A j \in CallsInProgress : j <= i]
            .returned

\* a condition written as the literal true or false
IsBooleanLiteral(node) == node.kind = "Literal" /\ node.type = "BOOLEAN"

\* the block the claim gives to an if statement whose conditions are all
\* boolean literals: the one of the first condition that is true, the
\* else block when none is
RECURSIVE FirstTrueBranch(_, _, _)
FirstTrueBranch(branches, i, else_branch) ==
    IF i > Len(branches) THEN else_branch
    ELSE IF branches[i][1].value = "true" THEN branches[i][2]
    ELSE FirstTrueBranch(branches, i + 1, else_branch)

\* C19: in an if statement with elseif branches the conditions are taken
\* in order, main condition first, and the block that runs is the one of
\* the first truthy condition; the else block runs exactly when the main
\* condition and every elseif condition are falsy.
C19_FirstTruthyBranchRuns ==
    \A i \in 1..Len(kont) :
        LET f == kont[i]
            node == f.node
            branches == <<<<node.condition, node.then_branch>>>>
                        \o node.elseif_branches
        IN  (/\ node.kind = "IfStatement"
             /\ f.pc = "block"
             /\ \A j \in 1..Len(branches) : IsBooleanLiteral(branches[j][1])) =>
                f.block = FirstTrueBranch(branches, 1, node.else_branch)

\* the values the claim gives to the loop variable: i, i + step, ... while
\* i <= end for a positive step, while i >= end for a negative one
RECURSIVE Counted(_, _, _)
Counted(i, end, step) ==
    IF (step > 0 /\ i <= end) \/ (step < 0 /\ i >= end)
    THEN <<Number(i)>> \o Counted(i + step, end, step)
    ELSE <<>>

\* C20: for integer start, end and non-zero step, a numeric for loop that
\* runs to its end without break has run its body once for each i of
\* start, start + step, ... while i <= end (step > 0) or i >= end
\* (step < 0), in that order, the loop variable bound to i before each run.
C20_NumericForRuns ==
    (/\ hist.loop.done
     /\ hist.loop.start.t = "int" /\ hist.loop.end.t = "int"
     /\ hist.loop.step.t = "int" /\ hist.loop.step.n # 0) =>
        hist.loop.ran = Counted(hist.loop.start.n, hist.loop.end.n,
                                hist.loop.step.n)

\* the loops whose body is being run
LoopsInProgress ==
    {i \in 1..Len(kont) :
        kont[i].node.kind \in {"ForStatement", "WhileStatement"}
        /\ kont[i].pc = "body"}

\* C21: once a break statement has executed in the body of a loop, as a
\* statement of the body or inside an if block of it, that loop is left:
\* nothing more is handed to evaluate() while the loop is in progress, no
\* later statement of the body and no condition or statement of a further
\* iteration.
C21_BreakExitsLoop ==
    \A i \in LoopsInProgress : kont[i].broken => ctrl.op # "eval"

\* C22: if and while conditions, not, and the selection of and / or take a
\* value as falsy exactly when it is nil or false; every other value, the
\* integer 0 and the empty string included, is truthy.
C22_Truthiness ==
    hist.truth.tested => (hist.truth.truthy <=> LuaTruthy(hist.truth.value))

\* evaluate() is entered for a call of a user-defined function with a
\* number of arguments that is not its number of parameters
ArityMismatchCall ==
    /\ phase = "exec"
    /\ ctrl.op = "eval"
    /\ ctrl.node.kind = "FunctionCall"
    /\ ctrl.node.name \in DOMAIN envs[environment]
    /\ LET function == envs[environment][ctrl.node.name] IN
       /\ function.t = "function"
       /\ Len(ctrl.node.arguments) # Len(function.node.params)

\* C23: a call of a user-defined function with a number of arguments
\* different from its number of parameters fails at once with
\* FunctionArgumentError as the original cause: no argument expression is
\* evaluated, no body statement runs, and the environment, the environment
\* stack and the logs are as before the call.
C23_ArityMismatchFails ==
    [][ArityMismatchCall =>
          /\ ctrl'.op = "raise"
          /\ OriginalCause(ctrl'.exc).cls = "FunctionArgumentError"
          /\ kont' = kont
          /\ environment' = environment
          /\ environment_stack' = environment_stack
          /\ envs'[environment'] = envs[environment]
          /\ logs' = logs]_vars

\* exec has returned the error of f(print("arg")) for a two-parameter f:
\* neither the argument nor the body has printed
C23_Witness ==
    /\ phase = "idle"
    /\ ~result.success
    /\ hist.source
          = "function f(a, b)\n  print(\"body\")\nend\nprint(\"before\")\nf(print(\"arg\"))"
    /\ OriginalCause(result.error).cls = "FunctionArgumentError"
    /\ logs = "before\n"
    /\ environment_stack = <<>>

\* C24: a method call lib.m(args) fails with FunctionNotDeclaredError as
\* the original cause when lib is not bound or m is neither an attribute
\* nor a method of the library lib, and fails in its lookup with
\* InvalidOperationError as the original cause only when m is in lib but
\* is not callable; a member access lib.m yields the attribute named m if
\* there is one, otherwise the method named m.
C24_MethodCallFailures ==
    LET call == hist.method
        lib == LibraryOf(call.parent.name)
        member == hist.member
        of == LibraryOf(member.library)
    IN  /\ (call.looked /\ call.parent.t = "nil") =>
              (~call.found /\ call.cause = "FunctionNotDeclaredError")
        /\ (call.looked /\ call.parent.t = "library"
               /\ call.name \notin DOMAIN lib.attributes
               /\ call.name \notin lib.methods) =>
              (~call.found /\ call.cause = "FunctionNotDeclaredError")
        /\ (call.looked /\ ~call.found /\ call.cause = "InvalidOperationError") =>
              /\ call.parent.t = "library"
              /\ call.name \in DOMAIN lib.attributes
              /\ call.name \notin lib.methods
        /\ member.done =>
              member.value = IF member.name \in DOMAIN of.attributes
                             THEN of.attributes[member.name]
                             ELSE Native(member.library \o "." \o member.name)
        /\ (member.done /\ member.name \notin DOMAIN of.attributes) =>
              member.name \in of.methods

\* the body of a user-function call starts: its first statement is handed
\* to evaluate()
BodyStarts ==
    /\ ctrl.op = "eval"
    /\ kont # <<>>
    /\ kont[Len(kont)].node.kind = "FunctionCall"
    /\ kont[Len(kont)].pc = "body"
    /\ kont[Len(kont)].si = 2

\* C25: the body of a user-defined function resolves names against a copy
\* of the caller's environment taken at call time, not at declaration
\* time: when the body starts, the active environment binds each parameter
\* to its argument, whatever the caller bound to that name, and every other
\* name as the caller bound it when the call began, the names bound after
\* the declaration of the function included.
C25_BodySeesCallTimeCopy ==
    BodyStarts =>
        LET f == kont[Len(kont)]
            params == f.function.node.params
            Last(n) == CHOOSE i \in 1..Len(params) :
                           /\ params[i] = n
                           /\ \A j \in 1..Len(params) : params[j] = n => j <= i
            names == DOMAIN f.at_call \cup {params[i] : i \in 1..Len(params)}
        IN  /\ environment # environment_stack[Len(environment_stack)]
            /\ envs[environment] =
                  [n \in names |->
                      IF \E i \in 1..Len(params) : params[i] = n
                      THEN f.args[Last(n)] ELSE f.at_call[n]]

\* f(3) has printed its parameter a (3, not the caller's 1) and the x the
\* caller declared after f (2), and the caller has printed its own a
C25_Witness ==
    /\ hist.source
          = "local a = 1\nfunction f(a)\n  print(a, x)\nend\nlocal x = 2\nf(3)\nprint(a)"
    /\ hist.call.returned
    /\ logs = "3 2\n1\n"

\* C26 (SpecParser): binary operators of one level of the precedence
\* table group to the left: for primary operands a, b, c and operators
\* op1, op2 of the same level, .. and ^ included, 'a op1 b op2 c' parses as
\* (a op1 b) op2 c.
C26_SameLevelGroupsLeft ==
    LET in == parsing.input
        level1 == precedence[OperatorType(in.op1)]
        level2 == precedence[OperatorType(in.op2)]
        top == parsing.ast.body[1]
    IN  (parsing.stage = "parsed" /\ level1 = level2) =>
            /\ Len(parsing.ast.body) = 1
            /\ SameOperation(top, top.left, in.op2, OperandTree(in.c))
            /\ SameOperation(top.left, OperandTree(in.a), in.op1,
                             OperandTree(in.b))

\* 't[1] ^ -2 ^ (p or q)' is parsed with the first ^ below the second
C26_Witness ==
    /\ parsing.stage = "parsed"
    /\ parsing.input = [a |-> "t[1]", op1 |-> "^", b |-> "-2", op2 |-> "^",
                        c |-> "(p or q)"]
    /\ parsing.ast.body[1].operator = "POW"
    /\ parsing.ast.body[1].left.kind = "BinaryOperation"
    /\ parsing.ast.body[1].left.operator = "POW"
    /\ parsing.ast.body[1].right = OperandTree("(p or q)")

\* the source fails in the lexer or in the parser
SyntaxFails(source) ==
    LET lexed == tokenize(source) IN
    lexed.error # <<>> \/ ~parse(lexed.tokens).ok

\* C27: exec is all-or-nothing with respect to syntax: an exec of a source
\* that fails in the lexer or in the parser returns the SyntaxError and
\* evaluates no statement of the source, so the environment, the
\* environment stack and the logs are as before the call, even when valid
\* statements come before the offending position.
C27_SyntaxErrorRunsNothing ==
    [][(execs' = execs + 1 /\ SyntaxFails(hist'.source)) =>
          /\ phase' = "idle"
          /\ ~result'.success
          /\ result'.error[1].cls = "SyntaxError"
          /\ UNCHANGED <<environment, environment_stack, envs, logs, tables,
                         return_value, ctrl, kont>>]_vars

\* a second exec has failed in the parser after a valid print statement,
\* and the logs and the bindings of the first exec are in place
C27_Witness ==
    /\ phase = "idle"
    /\ execs = 2
    /\ hist.source = "print(\"z\")\nlocal = 1"
    /\ hist.stage = "parser"
    /\ ~result.success
    /\ logs = "3 2\n1\n"
    /\ "x" \in DOMAIN envs[environment]

\* C28: tables are shared by reference across call frames: when a call of
\* a user-defined function has returned, an indexed assignment t[k] = v
\* its body executed on a table the caller had bound to t before the call
\* shows to the caller, whose t is that table still and whose t[k] is v,
\* whatever the body assigned to t itself.
C28_TablesSharedAcrossCalls ==
    hist.shared.done =>
        LET s == hist.shared IN
        /\ s.name \in DOMAIN s.caller
        /\ s.caller[s.name] = TableRef(s.ref)
        /\ TableEval_getitem(s.tables[s.ref], s.key)
              = [ok |-> TRUE, value |-> s.value]

\* f has assigned t[1] and t[2], then t itself, and printed its own t (0);
\* the caller has printed the entries f assigned
C28_Witness ==
    /\ hist.shared.done
    /\ hist.shared.name = "t"
    /\ hist.shared.key = Number(2)
    /\ hist.shared.value = Number(6)
    /\ logs = "0\n5 6 2\n"

\* C29: whenever parse returns a Root without error, every token before
\* EOF has been consumed into the tree: the parser stands at the EOF token,
\* and a source with an END, ELSE or ELSEIF token that closes no open block
\* is not accepted with the tokens from there on dropped.
C29_ParseConsumesAllTokens ==
    hist.parse.returned => hist.parse.next = "EOF"

\* C30: the value a user-function call yields is the value of the first
\* return statement executed in the body of that call: a return statement
\* executed later in the same body does not change it, and a nested
\* user-function call made after it does not clear it.
C30_FirstReturnIsYielded ==
    (hist.yield.done /\ hist.yield.first # <<>>) =>
        hist.yield.value = hist.yield.first[1]

=============================================================================
